---- MODULE Spec2Model ----
(***************************************************************************)
(* Lead-generation bots: the harvest / resume / enrich / qualify / commit  *)
(* pipeline of "justin coble/main.py" with its Sheets sink                 *)
(* ("justin coble/operators/sheet_ops.py") and the PropStream enrichment   *)
(* client ("operators/realestate_ops.py").                                 *)
(*                                                                         *)
(* Money is modelled in cents (Python floats 99999.99 and 100000.00 are    *)
(* 9999999 and 10000000).  Python None is the string NoneValue for a file  *)
(* number and the empty sequence for a buffered record.                    *)
(***************************************************************************)
EXTENDS Integers, Sequences, FiniteSets, TLC

\* ------------------------------------------------------------------ bounds
MaxLeads == 3
MaxRuns == 2
MaxCalls == 2
MaxLoadMore == 3
MaxGrowth == 2
MaxPageCap == 3
MaxSeenStop == 2
MaxPageListings == 2
MaxBrockPages == 2
MaxOwnerWords == 3
MaxCities == 3
MaxRenderRounds == 2
MaxCsvRows == 2
MaxLinks == 3
MaxCleanCalls == 2
MaxRequests == 4

\* --------------------------------------------------------------- constants
\* main.py:119  "elif prev_rec["estValue"] >= 100_000" (dollars)
EQUITY_THRESHOLD == 100000
\* realestate_ops.py:248: the samples that _wait_for_result_rendered asks for
RenderSamples == 4

NoneValue == "<None>"

VARIABLES
    \* ---- the world outside the process
    sink,          \* rows of Sheet1, oldest first (the header row is left out)
    upstream,      \* what the source's listing page shows, in page order
    propstream,    \* what PropStream answers for each address
    \* ---- one process running run_lead_processing(source_keys)
    run,           \* number of the process invocation (1 = first run)
    ended,         \* how the invocation before this one ended: NoRun, "complete" (ended
                   \* at main.py:129 after an undisturbed read and scrape), "done",
                   \* "exited" or "crashed"
    sink0,         \* the sink as it was when this invocation started
    source_keys,   \* sys.argv[1:]
    k,             \* position in source_keys
    pc,            \* where the process is
    last,          \* main.py:55
    rendered,      \* did the listing render within the harvester's timeout
    scraped,       \* main.py:61, what scrape() returned
    leads,         \* main.py:67, 72
    i,             \* main.py:77 (1-based)
    rec,           \* main.py:81
    prev_rec,      \* main.py:75 (<<>> is None, <<r>> a buffered record)
    equity, firstName, lastName, lookup_failed,   \* main.py:97-102
    calls,         \* the calls made so far by this invocation, in order
    \* ---- one call of appendToSheet
    attempt,       \* sheet_ops.py:76
    tries,         \* executions of values().append() in this call
    writes,        \* rows this call has written
    reauths,       \* successful _ensure_authenticated() calls in this call
    exit_status,   \* 0 while running or after a normal end, 1 after sys.exit(1) or a traceback
    \* ---- one process calling fetchPropStreamEstimates (realestate_ops.py)
    client,        \* _client: 0 is None, n the client built by the n-th construction
    constructions, \* _PropStreamClient() evaluations begun in this process
    browsers,      \* browsers launched in this process
    logins,        \* _login() executions begun in this process
    callNo,        \* fetchPropStreamEstimates calls begun in this process
    psPc,          \* where the current call is
    args,          \* (address, city, zip_code) of the current call
    used,          \* the client whose get_estimates serves the current call (0: none yet)
    idx,           \* realestate_ops.py:549
    ge_equity,     \* get_estimates' equity (<<>> is None, <<c>> an amount in cents)
    owner,         \* get_estimates' owner
    attemptsLog,   \* the loop iterations of the current call, in order
    troubles,      \* what went wrong during the current call
    result,        \* the tuple the current call returned (<<>> before it returns)
    \* ---- one call of load_all_pages_for_view (52ten/untested_first_scrub.py)
    site0,         \* the view as the call found it: [lm, lazy, cards]
    lm_left,       \* activations of 'Load More' left before the control disappears
    lazy_left,     \* batches of cards the view can still load on a scroll
    cards,         \* div.entity-card-content-layer elements in the page
    lpPc,          \* where the call is
    activations,   \* successful safe_click calls on the control
    growths,       \* scrolls after which the card count had grown
    scrolls,       \* scrolls made
    consecutive_no_growth,   \* untested_first_scrub.py:152
    lm_end,        \* how the load-more phase ended ("" while it runs)
    click,         \* the latest safe_click call (<<>> before the first)
    \* ---- one call of harvestServiceLinkAuction (servicelink_auction_ops.py)
    MAX_PAGES,     \* servicelink_auction_ops.py:10 (SL_MAX_PAGES of the environment)
    have_existing, \* servicelink_auction_ops.py:192
    SL_STOP_AFTER_CONSEC_SEEN,   \* servicelink_auction_ops.py:22
    consec_seen,   \* servicelink_auction_ops.py:195
    all_new,       \* servicelink_auction_ops.py:194: the leads, each by its place in the scan
    scanned,       \* the leads the filter loops have looked at, in order: "seen" or "new"
    unfiltered,    \* the leads of the latest page that the filter loop did not come to
    page_index,    \* servicelink_auction_ops.py:208
    pages_scraped, \* calls of _collect_listings_on_current_page
    slPc,          \* where the call is
    sl_stop,       \* why the call stopped paginating ("" while it has not)
    sl_last,       \* what the latest pass through the pagination loop saw (<<>>: none yet)
    \* ---- one call of harvestBrockSales (brockandscott_ops.py)
    bkPc,          \* where the call is
    bk_pages,      \* pages whose rows were scraped (counted up to MaxBrockPages)
    address_full,  \* brockandscott_ops.py:27, of the latest row (<<>> before the first)
    bk_record,     \* the record appended for the latest row (<<>> before the first)
    \* ---- one call of _split_owner_hard (realestate_ops.py)
    owner_text,    \* its argument
    owner_split,   \* <<(first, last)>> once it has returned, <<>> before
    \* ---- one call of city_list_parks (52ten/untested_first_scrub.py)
    total_cities,     \* cities on the statewide list, city c at position c
    csv_rows,         \* city -> the park links the CSV holds for it at the start
    last_city_done,   \* get_last_city_in_csv: 0 is None
    cityPc,           \* where the call is
    city_idx,         \* position of the loop in the city list (from 1)
    skip_mode,
    found_last_city,
    city_log,         \* city -> how the loop handled it
    city_break,       \* why the loop was left early ("" if it was not)
    city_return,      \* the call of safe_return_to_city_list in the latest pass (<<>>: none)
    \* ---- the ledger keys of a ServiceLink lead and of a sheet row
    SL_RESUME_MODE,   \* servicelink_auction_ops.py:26
    key_lead,         \* a scraped lead: property, city, zip
    key_row,          \* a row of the sheet: its Property, City and Zip cells
    keys,             \* <<key of the lead, key of the row>> once computed, <<>> before
    \* ---- one call of _PropStreamClient._perform_search (realestate_ops.py)
    spPc,          \* where the call is
    sp_term,       \* realestate_ops.py:478
    sp_reads,      \* what _get_visible_search_input found, read after read
    sp_gotos,      \* the navigations to /search: "ensure" (line 433) or "forced" (line 484)
    sp_typed,      \* <<the text typed and submitted>>, <<>> when none was
    \* ---- one call of _wait_for_result_rendered (realestate_ops.py)
    rdPc,          \* where the call is: "poll", "sampling", "true", "false"
    rd_rounds,     \* polling rounds begun
    rd_present,    \* what _presence_signals said in the latest round
    rd_taken,      \* samples _render_stable has taken in the latest round
    last_len,      \* realestate_ops.py:226, <<>> is None
    stable,        \* realestate_ops.py:227
    rd_recent,     \* the latest samples of the round, RenderSamples of them at most
    \* ---- one first-scrub run as the CSV sees it (52ten/untested_first_scrub.py)
    scrubPc,          \* where the run is
    city_name,        \* the city whose listings are being parsed
    resume_city,      \* is it the city of the last CSV row (resume branch, lines 597-634)
    city_links,       \* what gather_all_links returned for the city, in page order
    csv_file,         \* the rows of the CSV, oldest first: [park_url, city]
    csv_before,       \* the CSV when the city's parse began
    existing_urls,    \* untested_first_scrub.py:472-476
    link_no,          \* position in city_links (1-based)
    city_data,        \* the park_url of each row the parse has appended, in order
    \* ---- one process calling add_missing_records (operators/data_clean.py)
    cleanPc,          \* where the call is
    clean_key,        \* the key of SOURCES the loop is at
    clean_calls,      \* calls of add_missing_records begun so far
    sheet_before,     \* the sheet when the current call read it (data_clean.py:87)
    have,             \* data_clean.py:88-92
    clean_leads,      \* data_clean.py:98-112, what the harvester returned
    lead_no,          \* position in clean_leads (1-based)
    clean_added,      \* what the current call appended, in order, with the equity found
    \* ---- the launcher (webbot.py): request threads, child processes, reader threads
    bot_proc,         \* _proc: 0 is None, n the n-th process started
    current_display,  \* _current_display ("" is None)
    oper_running,     \* OPER_STATE[d]["running"], for every row d
    running_lock,     \* _running_lock: 0 is free, t held by request thread t
    reqPc,            \* where each request thread is
    reqDisplay,       \* the row a /run request names
    reqAnswer,        \* what the thread's latest request came to
    requests,         \* requests begun so far
    children,         \* the processes started, in order: [display, alive, reader]
    \* ---- one POST /monday/webhook (skye link/src/monday_router.py)
    mdPc,             \* where the handler is
    md_event,         \* what the request carries
    gates,            \* monday_router.py:277-283, as read at line 324
    QBO_PROXY_COMMIT, \* providers/qbo_proxy.py:7
    md_sent,          \* the body posted to the proxy (<<>>: nothing posted)
    md_answer,        \* the status code the handler answered with (0: not yet)
    \* ---- the review queue (skye link/src/review_router.py, review_store.py)
    review_queue,     \* item id -> <<>> (not in the file) or <<item>>
    allow_create,     \* QB_ALLOW_CREATE is "true"
    rv_inflight,      \* the approval waiting for the provider (<<>>: none)
    rv_history,       \* item id -> what happened to it outside the queue
    rv_answer,        \* the status code of the latest answer (0: none yet)
    rv_requests       \* requests begun so far

varsWorld == <<sink, upstream, propstream>>
varsProc  == <<run, ended, sink0, source_keys, k, pc, last, rendered, scraped, leads, i, rec,
               prev_rec, equity, firstName, lastName, lookup_failed, calls, exit_status>>
varsAppend == <<attempt, tries, writes, reauths>>
varsPS == <<client, constructions, browsers, logins, callNo, psPc, args, used, idx,
            ge_equity, owner, attemptsLog, troubles, result>>
varsPager == <<site0, lm_left, lazy_left, cards, lpPc, activations, growths, scrolls,
               consecutive_no_growth, lm_end, click>>
\* The variables of the other components, which a component's steps leave alone.
varsSL == <<MAX_PAGES, have_existing, SL_STOP_AFTER_CONSEC_SEEN, consec_seen, all_new, scanned,
            unfiltered, page_index, pages_scraped, slPc, sl_stop, sl_last>>
varsBrock == <<bkPc, bk_pages, address_full, bk_record>>
varsOwner == <<owner_text, owner_split>>
varsCity == <<total_cities, csv_rows, last_city_done, cityPc, city_idx, skip_mode,
              found_last_city, city_log, city_break, city_return>>
varsKey == <<SL_RESUME_MODE, key_lead, key_row, keys>>
varsSearch == <<spPc, sp_term, sp_reads, sp_gotos, sp_typed>>
varsRender == <<rdPc, rd_rounds, rd_present, rd_taken, last_len, stable, rd_recent>>
varsScrub == <<scrubPc, city_name, resume_city, city_links, csv_file, csv_before, existing_urls, link_no, city_data>>
varsClean == <<cleanPc, clean_key, clean_calls, sheet_before, have, clean_leads, lead_no, clean_added>>
varsLauncher == <<bot_proc, current_display, oper_running, running_lock, reqPc, reqDisplay, reqAnswer, requests, children>>
varsMonday == <<mdPc, md_event, gates, QBO_PROXY_COMMIT, md_sent, md_answer>>
varsReview == <<review_queue, allow_create, rv_inflight, rv_history, rv_answer, rv_requests>>
varsSub == <<varsPager, varsSL, varsBrock, varsOwner, varsCity, varsKey, varsSearch, varsRender, varsScrub, varsClean, varsLauncher, varsMonday, varsReview>>
othersPager == <<varsWorld, varsProc, varsAppend, varsPS, varsSL, varsBrock, varsOwner, varsCity, varsKey, varsSearch, varsRender, varsScrub, varsClean, varsLauncher, varsMonday, varsReview>>
othersSL == <<varsWorld, varsProc, varsAppend, varsPS, varsPager, varsBrock, varsOwner, varsCity, varsKey, varsSearch, varsRender, varsScrub, varsClean, varsLauncher, varsMonday, varsReview>>
othersBrock == <<varsWorld, varsProc, varsAppend, varsPS, varsPager, varsSL, varsOwner, varsCity, varsKey, varsSearch, varsRender, varsScrub, varsClean, varsLauncher, varsMonday, varsReview>>
othersOwner == <<varsWorld, varsProc, varsAppend, varsPS, varsPager, varsSL, varsBrock, varsCity, varsKey, varsSearch, varsRender, varsScrub, varsClean, varsLauncher, varsMonday, varsReview>>
othersCity == <<varsWorld, varsProc, varsAppend, varsPS, varsPager, varsSL, varsBrock, varsOwner, varsKey, varsSearch, varsRender, varsScrub, varsClean, varsLauncher, varsMonday, varsReview>>
othersKey == <<varsWorld, varsProc, varsAppend, varsPS, varsPager, varsSL, varsBrock, varsOwner, varsCity, varsSearch, varsRender, varsScrub, varsClean, varsLauncher, varsMonday, varsReview>>
othersSearch == <<varsWorld, varsProc, varsAppend, varsPS, varsPager, varsSL, varsBrock, varsOwner, varsCity, varsKey, varsRender, varsScrub, varsClean, varsLauncher, varsMonday, varsReview>>
othersRender == <<varsWorld, varsProc, varsAppend, varsPS, varsPager, varsSL, varsBrock, varsOwner, varsCity, varsKey, varsSearch, varsScrub, varsClean, varsLauncher, varsMonday, varsReview>>
othersScrub == <<varsWorld, varsProc, varsAppend, varsPS, varsPager, varsSL, varsBrock, varsOwner, varsCity, varsKey, varsSearch, varsRender, varsClean, varsLauncher, varsMonday, varsReview>>
othersClean == <<varsWorld, varsProc, varsAppend, varsPS, varsPager, varsSL, varsBrock, varsOwner, varsCity, varsKey, varsSearch, varsRender, varsScrub, varsLauncher, varsMonday, varsReview>>
othersCleanButSink == <<upstream, propstream, varsProc, varsAppend, varsPS, varsPager, varsSL, varsBrock, varsOwner, varsCity, varsKey, varsSearch, varsRender, varsScrub, varsLauncher, varsMonday, varsReview>>
othersLauncher == <<varsWorld, varsProc, varsAppend, varsPS, varsPager, varsSL, varsBrock, varsOwner, varsCity, varsKey, varsSearch, varsRender, varsScrub, varsClean, varsMonday, varsReview>>
othersMonday == <<varsWorld, varsProc, varsAppend, varsPS, varsPager, varsSL, varsBrock, varsOwner, varsCity, varsKey, varsSearch, varsRender, varsScrub, varsClean, varsLauncher, varsReview>>
othersReview == <<varsWorld, varsProc, varsAppend, varsPS, varsPager, varsSL, varsBrock, varsOwner, varsCity, varsKey, varsSearch, varsRender, varsScrub, varsClean, varsLauncher, varsMonday>>
vars == <<varsWorld, varsProc, varsAppend, varsPS, varsSub>>

\* ------------------------------------------------------------------ texts
\* A Python str is modelled as the sequence of its characters, each a
\* one-character string: "Ann B" is <<"A", "n", "n", " ", "B">>.  The
\* operators below are the str and re methods the parsers use.
Lowers == <<"a", "b", "c", "d", "e", "f", "g", "h", "i", "j", "k", "l", "m",
            "n", "o", "p", "q", "r", "s", "t", "u", "v", "w", "x", "y", "z">>
Uppers == <<"A", "B", "C", "D", "E", "F", "G", "H", "I", "J", "K", "L", "M",
            "N", "O", "P", "Q", "R", "S", "T", "U", "V", "W", "X", "Y", "Z">>
IsLower(c) == \E n \in 1..Len(Lowers) : Lowers[n] = c
IsUpper(c) == \E n \in 1..Len(Uppers) : Uppers[n] = c
IsLetter(c) == IsLower(c) \/ IsUpper(c)
IsSpace(c) == c = " "
UpperChar(c) == IF IsLower(c) THEN Uppers[CHOOSE n \in 1..Len(Lowers) : Lowers[n] = c] ELSE c
LowerChar(c) == IF IsUpper(c) THEN Lowers[CHOOSE n \in 1..Len(Uppers) : Uppers[n] = c] ELSE c

\* str.upper()
py_upper(t) == [n \in 1..Len(t) |-> UpperChar(t[n])]

\* str.title(): a letter that follows no letter is upper-cased, every other
\* letter lower-cased.
py_title(t) ==
    [n \in 1..Len(t) |->
        IF n = 1 \/ ~IsLetter(t[IF n = 1 THEN 1 ELSE n - 1])
        THEN UpperChar(t[n]) ELSE LowerChar(t[n])]

\* "sub in t"
py_in(sub, t) ==
    \E n \in 1..(Len(t) - Len(sub) + 1) : SubSeq(t, n, n + Len(sub) - 1) = sub

\* str.strip()
RECURSIVE py_lstrip(_)
py_lstrip(t) == IF t # <<>> /\ IsSpace(Head(t)) THEN py_lstrip(Tail(t)) ELSE t
RECURSIVE py_rstrip(_)
py_rstrip(t) ==
    IF t # <<>> /\ IsSpace(t[Len(t)]) THEN py_rstrip(SubSeq(t, 1, Len(t) - 1)) ELSE t
py_strip(t) == py_rstrip(py_lstrip(t))

\* Position of the first character of t that is sep (0: none).
FirstPos(t, sep) ==
    IF \E n \in 1..Len(t) : t[n] = sep
    THEN CHOOSE n \in 1..Len(t) : t[n] = sep /\ \A m \in 1..(n - 1) : t[m] # sep
    ELSE 0

\* Position of the last character of t that is sep (0: none).
LastPos(t, sep) ==
    IF \E n \in 1..Len(t) : t[n] = sep
    THEN CHOOSE n \in 1..Len(t) : t[n] = sep /\ \A m \in (n + 1)..Len(t) : t[m] # sep
    ELSE 0

\* str.split(sep) for a one-character sep: the list of the pieces.
RECURSIVE py_split(_, _)
py_split(t, sep) ==
    IF FirstPos(t, sep) = 0 THEN <<t>>
    ELSE <<SubSeq(t, 1, FirstPos(t, sep) - 1)>>
         \o py_split(SubSeq(t, FirstPos(t, sep) + 1, Len(t)), sep)

\* str.split(sep, 1)
py_split1(t, sep) ==
    IF FirstPos(t, sep) = 0 THEN <<t>>
    ELSE <<SubSeq(t, 1, FirstPos(t, sep) - 1), SubSeq(t, FirstPos(t, sep) + 1, Len(t))>>

\* str.rsplit(sep, 1)
py_rsplit1(t, sep) ==
    IF LastPos(t, sep) = 0 THEN <<t>>
    ELSE <<SubSeq(t, 1, LastPos(t, sep) - 1), SubSeq(t, LastPos(t, sep) + 1, Len(t))>>

\* str.split(): the words between runs of whitespace.
RECURSIVE py_words(_)
py_words(t) ==
    LET u == py_lstrip(t)
        e == IF FirstPos(u, " ") = 0 THEN Len(u) ELSE FirstPos(u, " ") - 1
    IN  IF u = <<>> THEN <<>>
        ELSE <<SubSeq(u, 1, e)>> \o py_words(SubSeq(u, e + 1, Len(u)))

\* " ".join(words)
RECURSIVE py_join(_)
py_join(ws) ==
    IF ws = <<>> THEN <<>>
    ELSE IF Len(ws) = 1 THEN ws[1]
    ELSE ws[1] \o <<" ">> \o py_join(Tail(ws))

\* End of the run of whitespace that starts at position n of t.
RunEnd(t, n) ==
    CHOOSE e \in n..Len(t) :
        /\ \A m \in n..e : IsSpace(t[m])
        /\ e = Len(t) \/ ~IsSpace(t[e + 1])

\* re.split(r"\s{2,}", t): split at every run of two or more blanks.
RECURSIVE re_split_2spaces(_)
re_split_2spaces(t) ==
    LET starts == {n \in 1..(Len(t) - 1) : IsSpace(t[n]) /\ IsSpace(t[n + 1])}
        b == CHOOSE n \in starts : \A m \in starts : n <= m
    IN  IF starts = {} THEN <<t>>
        ELSE <<SubSeq(t, 1, b - 1)>> \o re_split_2spaces(SubSeq(t, RunEnd(t, b) + 1, Len(t)))

\* ------------------------------------------------------------ main.py:17-43
mapping ==
    [ reuben_lublin       |-> "Reuben Lublin",
      brock_and_scott     |-> "Brock & Scott",
      aldridge_pites      |-> "Aldridge Pites",
      foreclosure_hotline |-> "Foreclosure Hotline",
      servicelink_auction |-> "ServiceLink Auction",
      auction_com         |-> "Auction.com",
      zome_com            |-> "Xome.com",
      logs_powerbi        |-> "Logs PowerBI Report" ]

\* An argument that is no key of mapping (main.py:46).
UnknownKey == "not_a_source"

\* Sites that publish no case / file number: the harvester writes "".
NoFileNumberKeys == {"servicelink_auction", "auction_com", "zome_com"}

\* Case numbers as a site prints them.
FileNo(j) == <<"F1", "F2", "F3", "F4", "F5", "F6">>[j]

\* What a site can show: entries are [fileNumber, property]; the street
\* address of the entry at position p is p.
SiteEntry(f, p) == [fileNumber |-> f, property |-> p]

\* The listings a site shows, for each length up to MaxLeads: a site without
\* file numbers shows n entries; a site with file numbers shows n entries
\* with n different case numbers, or (n >= 2) a listing whose last entry
\* carries the case number of the first (two properties in one case).
Listings(key) ==
    IF key \in NoFileNumberKeys
    THEN {[p \in 1..n |-> SiteEntry("", p)] : n \in 0..MaxLeads}
    ELSE {[p \in 1..n |-> SiteEntry(FileNo(p), p)] : n \in 0..MaxLeads}
         \cup {[p \in 1..n |-> SiteEntry(FileNo(IF p = n THEN 1 ELSE p), p)] : n \in 2..MaxLeads}

\* What a PropStream lookup of one address does: it returns an equity (cents)
\* with an owner, returns without having found anything, or raises.
Answers ==
    {[kind |-> "found", equity |-> 9999999],
     [kind |-> "found", equity |-> 10000000],
     [kind |-> "nothing", equity |-> 0],
     [kind |-> "raise", equity |-> 0]}


\* ------------------------------------------------------------- harvesters
\* A harvester's result: it raised, or it returned a list of leads.  `site`
\* is the listing the page shows and `shown` says whether the first listing
\* content rendered before the harvester's wait timed out.
Returned(ls) == [raised |-> FALSE, leads |-> ls]
Raised == [raised |-> TRUE, leads |-> <<>>]

\* operators/list_ops.py: no wait at all; query_selector_all gives [] on a
\* page without rows.
harvestLeadList(site, shown) == IF shown THEN Returned(site) ELSE Returned(<<>>)

\* brockandscott_ops.py:20: wait_for_selector outside any try.
harvestBrockSales(site, shown) == IF shown THEN Returned(site) ELSE Raised

\* aldridgepite_ops.py:35-40
harvestAldridgePites(site, shown) == IF shown THEN Returned(site) ELSE Returned(<<>>)

\* foreclosurehotline_ops.py:29-35: wait_for_function outside any try.
harvestForeclosureHotline(site, shown) == IF shown THEN Returned(site) ELSE Raised

\* servicelink_auction_ops.py:53-56, 210-232 (sheet resume not configured:
\* SL_SHEET_ID defaults to "", so every scraped lead is returned).
harvestServiceLinkAuction(site, shown) == IF shown THEN Returned(site) ELSE Returned(<<>>)

\* auction_com_ops.py:17-22
harvestAuctionCom(site, shown) == IF shown THEN Returned(site) ELSE Returned(<<>>)

\* zome_com_ops.py:98-106
harvestZomeCom(site, shown) == IF shown THEN Returned(site) ELSE Returned(<<>>)

\* logs_powerbi_ops.py:20-25
harvestLogsPowerBI(site, shown) == IF shown THEN Returned(site) ELSE Returned(<<>>)

\* mapping[key]["scrape"]()
scrape(key, site, shown) ==
    CASE key = "reuben_lublin"       -> harvestLeadList(site, shown)
      [] key = "brock_and_scott"     -> harvestBrockSales(site, shown)
      [] key = "aldridge_pites"      -> harvestAldridgePites(site, shown)
      [] key = "foreclosure_hotline" -> harvestForeclosureHotline(site, shown)
      [] key = "servicelink_auction" -> harvestServiceLinkAuction(site, shown)
      [] key = "auction_com"         -> harvestAuctionCom(site, shown)
      [] key = "zome_com"            -> harvestZomeCom(site, shown)
      [] key = "logs_powerbi"        -> harvestLogsPowerBI(site, shown)

\* ------------------------------------------------------------ sheet_ops.py
\* sheet_ops.py:109-114: the last File # among the rows of this source.
getLastProcessedFileNumberBySource(rows, source) ==
    LET filtered == SelectSeq(rows, LAMBDA r : r.source = source)
    IN  IF filtered = <<>> THEN NoneValue ELSE filtered[Len(filtered)].fileNumber

\* sheet_ops.py:61-74: the row appendToSheet writes for a record.
RowOf(record) ==
    [fileNumber |-> record.fileNumber, property |-> record.property,
     estValue |-> record.estValue, firstName |-> record.firstName,
     lastName |-> record.lastName, source |-> record.source, error |-> record.error]

\* A retry loop that forgets to look at the attempt number.
MayRetryOnAnyAttempt(att, reauth_ok) == reauth_ok

\* sheet_ops.py:89: "if attempt == 0 and _ensure_authenticated()"
MayRetry(att, reauth_ok) == att = 0 /\ reauth_ok

\* ----------------------------------------------------------------- main.py
\* Python truthiness of `last` (main.py:64).
Truthy(v) == v # NoneValue /\ v # ""

\* main.py:66: next(i for i, l in enumerate(leads) if l["fileNumber"] == last),
\* 1-based here; 0 stands for StopIteration.
FirstIndexOf(ls, fileNo) ==
    IF \E j \in 1..Len(ls) : ls[j].fileNumber = fileNo
    THEN CHOOSE j \in 1..Len(ls) :
            /\ ls[j].fileNumber = fileNo
            /\ \A m \in 1..(j - 1) : ls[m].fileNumber # fileNo
    ELSE 0

\* A resume that starts at the last processed lead instead of after it.
ResumeSliceInclusive(ls, lastNo) ==
    IF Truthy(lastNo) /\ FirstIndexOf(ls, lastNo) # 0
    THEN SubSeq(ls, FirstIndexOf(ls, lastNo), Len(ls))
    ELSE ls

\* main.py:64-70
ResumeSlice(ls, lastNo) ==
    IF Truthy(lastNo) /\ FirstIndexOf(ls, lastNo) # 0
    THEN SubSeq(ls, FirstIndexOf(ls, lastNo) + 1, Len(ls))
    ELSE ls

\* main.py:81-93
NewRecord(lead, name) ==
    [fileNumber |-> lead.fileNumber, property |-> lead.property, source |-> name,
     firstName |-> "", lastName |-> "", error |-> "", estValue |-> -1]

\* A loop that decides on the record it has just built.
BufferedIsCurrent(prev, cur) == cur

\* main.py:107-123: the record the commit decision is about is the buffered
\* one (prev_rec), not the one just built (rec).
Buffered(prev, cur) == prev

\* main.py:108-112: the buffered record is completed with the values of the
\* lookup that has just been made.
Attached(prev, eq, first, lst, failed) ==
    [prev EXCEPT !.estValue = eq, !.firstName = first, !.lastName = lst,
                 !.error = IF failed THEN "Try again" ELSE @]

\* A threshold test with > in place of >=.
QualifiesAboveOnly(r) ==
    IF r.error # "" THEN TRUE
    ELSE r.estValue > EQUITY_THRESHOLD * 100

\* main.py:115-123: append (TRUE) or skip (FALSE).
Qualifies(r) ==
    IF r.error # "" THEN TRUE
    ELSE r.estValue >= EQUITY_THRESHOLD * 100


\* What fetchPropStreamEstimates(addr, city, zip) does for the caller
\* (main.py:96-104): the tuple it returns, or that it raised.
OwnerFirst(a) == IF a.kind = "found" THEN "Katie" ELSE ""
OwnerLast(a) == IF a.kind = "found" THEN "Evans" ELSE ""

\* ------------------------------------------------- process start (main.py:132-142)
NoRun == ""

ProcInit ==
    /\ run = 1
    /\ ended = NoRun
    /\ sink0 = sink
    /\ k = 1
    /\ pc = "source"
    /\ last = NoneValue
    /\ rendered = "unknown"
    /\ scraped = <<>>
    /\ leads = <<>>
    /\ i = 0
    /\ rec = <<>>
    /\ prev_rec = <<>>
    /\ equity = 0
    /\ firstName = ""
    /\ lastName = ""
    /\ lookup_failed = FALSE
    /\ calls = <<>>
    /\ exit_status = 0

AppendIdle ==
    /\ attempt = 0
    /\ tries = 0
    /\ writes = 0
    /\ reauths = 0

\* No fetchPropStreamEstimates call has been made (realestate_ops.py:608).
PropStreamIdle ==
    /\ client = 0
    /\ constructions = 0
    /\ browsers = 0
    /\ logins = 0
    /\ callNo = 0
    /\ psPc = "idle"
    /\ args = <<>>
    /\ used = 0
    /\ idx = 0
    /\ ge_equity = <<>>
    /\ owner = <<>>
    /\ attemptsLog = <<>>
    /\ troubles = {}
    /\ result = <<>>

\* load_all_pages_for_view has not been called.
PagerIdle ==
    /\ site0 = <<>>
    /\ lm_left = 0
    /\ lazy_left = 0
    /\ cards = 0
    /\ lpPc = "idle"
    /\ activations = 0
    /\ growths = 0
    /\ scrolls = 0
    /\ consecutive_no_growth = 0
    /\ lm_end = ""
    /\ click = <<>>

\* harvestServiceLinkAuction has not been called.
ServiceLinkIdle ==
    /\ MAX_PAGES = 0
    /\ have_existing = FALSE
    /\ SL_STOP_AFTER_CONSEC_SEEN = 0
    /\ consec_seen = 0
    /\ all_new = <<>>
    /\ scanned = <<>>
    /\ unfiltered = <<>>
    /\ page_index = 0
    /\ pages_scraped = 0
    /\ slPc = "idle"
    /\ sl_stop = ""
    /\ sl_last = <<>>

\* harvestBrockSales has not been called.
BrockIdle ==
    /\ bkPc = "idle"
    /\ bk_pages = 0
    /\ address_full = <<>>
    /\ bk_record = <<>>

\* _split_owner_hard is not being checked on its own.
OwnerIdle ==
    /\ owner_text = <<>>
    /\ owner_split = <<>>

\* How the city loop handled a city: not at all so far.
NotHandled == [how |-> "", parsed |-> FALSE, added |-> {}]

\* city_list_parks has not been called.
CityIdle ==
    /\ total_cities = 0
    /\ csv_rows = [c \in 1..MaxCities |-> {}]
    /\ last_city_done = 0
    /\ cityPc = "idle"
    /\ city_idx = 1
    /\ skip_mode = FALSE
    /\ found_last_city = FALSE
    /\ city_log = [c \in 1..MaxCities |-> NotHandled]
    /\ city_break = ""
    /\ city_return = <<>>

\* No ledger key is being computed.
KeyIdle ==
    /\ SL_RESUME_MODE = "property"
    /\ key_lead = <<>>
    /\ key_row = <<>>
    /\ keys = <<>>

\* _perform_search has not been called.
SearchIdle ==
    /\ spPc = "idle"
    /\ sp_term = <<>>
    /\ sp_reads = <<>>
    /\ sp_gotos = <<>>
    /\ sp_typed = <<>>

\* _wait_for_result_rendered has not been called.
RenderIdle ==
    /\ rdPc = "idle"
    /\ rd_rounds = 0
    /\ rd_present = FALSE
    /\ rd_taken = 0
    /\ last_len = <<>>
    /\ stable = 0
    /\ rd_recent = <<>>

\* No first-scrub run is being followed at the level of CSV rows.
ScrubIdle ==
    /\ scrubPc = "idle"
    /\ city_name = ""
    /\ resume_city = FALSE
    /\ city_links = <<>>
    /\ csv_file = <<>>
    /\ csv_before = <<>>
    /\ existing_urls = {}
    /\ link_no = 0
    /\ city_data = <<>>

\* add_missing_records has not been called.
CleanIdle ==
    /\ cleanPc = "idle"
    /\ clean_key = ""
    /\ clean_calls = 0
    /\ sheet_before = <<>>
    /\ have = {}
    /\ clean_leads = <<>>
    /\ lead_no = 0
    /\ clean_added = <<>>

\* The launcher is not being followed.
LauncherIdle ==
    /\ bot_proc = 0
    /\ current_display = ""
    /\ oper_running = <<>>
    /\ running_lock = 0
    /\ reqPc = <<>>
    /\ reqDisplay = <<>>
    /\ reqAnswer = <<>>
    /\ requests = 0
    /\ children = <<>>

\* No Monday webhook is being handled.
MondayIdle ==
    /\ mdPc = "idle"
    /\ md_event = ""
    /\ gates = <<>>
    /\ QBO_PROXY_COMMIT = FALSE
    /\ md_sent = <<>>
    /\ md_answer = 0

\* The review queue is not being followed.
ReviewIdle ==
    /\ review_queue = <<>>
    /\ allow_create = FALSE
    /\ rv_inflight = <<>>
    /\ rv_history = <<>>
    /\ rv_answer = 0
    /\ rv_requests = 0

\* The components that are not running.
SubIdle ==
    /\ PagerIdle
    /\ ServiceLinkIdle
    /\ BrockIdle
    /\ OwnerIdle
    /\ CityIdle
    /\ KeyIdle
    /\ SearchIdle
    /\ RenderIdle
    /\ ScrubIdle
    /\ CleanIdle
    /\ LauncherIdle
    /\ MondayIdle
    /\ ReviewIdle

Init ==
    /\ sink = <<>>
    /\ source_keys \in {<<key>> : key \in (DOMAIN mapping) \cup {UnknownKey}}
    /\ upstream \in (IF source_keys[1] \in DOMAIN mapping
                     THEN Listings(source_keys[1]) ELSE {<<>>})
    /\ propstream \in [1..Len(upstream) -> Answers]
    /\ ProcInit
    /\ AppendIdle
    /\ PropStreamIdle
    /\ SubIdle

\* main.py:45-48: an argument that is no key of mapping is skipped.
UnknownSource ==
    /\ pc = "source"
    /\ k <= Len(source_keys)
    /\ source_keys[k] \notin DOMAIN mapping
    /\ k' = k + 1
    /\ UNCHANGED <<varsPS, varsSub, varsWorld, varsAppend, run, ended, sink0, source_keys, pc, last,
                   rendered, scraped, leads, i, rec, prev_rec, equity, firstName, lastName,
                   lookup_failed, calls, exit_status>>

\* main.py:50-59 with sheet_ops.py:96-123: the read of the last file number
\* returns, raises something that main.py:57 catches (last = None), or ends
\* the process with sys.exit(1) after a failed re-authentication.
FetchLast ==
    /\ pc = "source"
    /\ k <= Len(source_keys)
    /\ source_keys[k] \in DOMAIN mapping
    /\ \E outcome \in {"ok", "error", "exit"} :
         /\ calls' = Append(calls, [op |-> "getLast", i |-> 0, property |-> 0,
                                    outcome |-> outcome, append |-> FALSE,
                                    error |-> "", estValue |-> -1])
         /\ IF outcome = "ok"
            THEN /\ last' = getLastProcessedFileNumberBySource(sink, mapping[source_keys[k]])
                 /\ pc' = "scrape"
                 /\ exit_status' = exit_status
            ELSE IF outcome = "error"
            THEN /\ last' = NoneValue
                 /\ pc' = "scrape"
                 /\ exit_status' = exit_status
            ELSE /\ last' = last
                 /\ pc' = "exited"
                 /\ exit_status' = 1
    /\ UNCHANGED <<varsPS, varsSub, varsWorld, varsAppend, run, ended, sink0, source_keys, k,
                   rendered, scraped, leads, i, rec, prev_rec, equity, firstName, lastName,
                   lookup_failed>>

\* main.py:61-75: scrape, slice after the last processed file number, and
\* enter the loop.  An exception of the harvester is not caught.
Scrape ==
    /\ pc = "scrape"
    /\ \E shown \in BOOLEAN :
         LET res == scrape(source_keys[k], upstream, shown) IN
         /\ rendered' = IF shown THEN "yes" ELSE "timeout"
         /\ IF res.raised
            THEN /\ pc' = "crashed"
                 /\ exit_status' = 1
                 /\ UNCHANGED <<scraped, leads, i, prev_rec>>
            ELSE /\ scraped' = res.leads
                 /\ leads' = ResumeSlice(res.leads, last)
                 /\ i' = 1
                 /\ prev_rec' = <<>>
                 /\ pc' = "for"
                 /\ exit_status' = exit_status
    /\ UNCHANGED <<varsPS, varsSub, varsWorld, varsAppend, run, ended, sink0, source_keys, k, last,
                   rec, equity, firstName, lastName, lookup_failed, calls>>

\* main.py:77-104: build the record of lead i and look its address up.
Lookup ==
    /\ pc = "for"
    /\ i <= Len(leads)
    /\ LET lead == leads[i]
           ans  == propstream[lead.property]
           r    == NewRecord(lead, mapping[source_keys[k]])
       IN  /\ calls' = Append(calls, [op |-> "lookup", i |-> i, property |-> lead.property,
                                      outcome |-> ans.kind, append |-> FALSE,
                                      error |-> "", estValue |-> -1])
           /\ IF ans.kind = "raise"
              THEN /\ equity' = 0
                   /\ firstName' = ""
                   /\ lastName' = ""
                   /\ lookup_failed' = TRUE
                   /\ rec' = <<[r EXCEPT !.error = "Try again"]>>
              ELSE /\ equity' = ans.equity
                   /\ firstName' = OwnerFirst(ans)
                   /\ lastName' = OwnerLast(ans)
                   /\ lookup_failed' = FALSE
                   /\ rec' = <<r>>
    /\ pc' = "attach"
    /\ UNCHANGED <<varsPS, varsSub, varsWorld, varsAppend, run, ended, sink0, source_keys, k, last,
                   rendered, scraped, leads, i, prev_rec, exit_status>>

\* main.py:107-125: complete the buffered record and decide on it; the
\* record just built takes its place.
Attach ==
    /\ pc = "attach"
    /\ IF prev_rec = <<>>
       THEN /\ prev_rec' = rec
            /\ i' = i + 1
            /\ pc' = "for"
            /\ UNCHANGED <<calls, varsAppend>>
       ELSE LET r == Attached(Buffered(prev_rec, rec)[1], equity, firstName, lastName, lookup_failed) IN
            /\ calls' = Append(calls, [op |-> "decide", i |-> i, property |-> r.property,
                                       outcome |-> "", append |-> Qualifies(r),
                                       error |-> r.error, estValue |-> r.estValue])
            /\ IF Qualifies(r)
               THEN /\ prev_rec' = <<r>>
                    /\ pc' = "append"
                    /\ attempt' = 0
                    /\ tries' = 0
                    /\ writes' = 0
                    /\ reauths' = 0
                    /\ i' = i
               ELSE /\ prev_rec' = rec
                    /\ i' = i + 1
                    /\ pc' = "for"
                    /\ UNCHANGED varsAppend
    /\ UNCHANGED <<varsPS, varsSub, varsWorld, run, ended, sink0, source_keys, k, last, rendered, scraped, leads,
                   rec, equity, firstName, lastName, lookup_failed, exit_status>>

\* sheet_ops.py:76-86: one execution of values().append(): it writes the
\* row and appendToSheet returns True, or it fails with RefreshError.
AppendExecute ==
    /\ pc = "append"
    /\ tries' = tries + 1
    /\ \E outcome \in {"ok", "RefreshError"} :
         IF outcome = "ok"
         THEN /\ sink' = Append(sink, RowOf(prev_rec[1]))
              /\ writes' = writes + 1
              /\ pc' = "appended"
         ELSE /\ pc' = "reauth"
              /\ UNCHANGED <<sink, writes>>
    /\ UNCHANGED <<varsPS, varsSub, upstream, propstream, run, ended, sink0, source_keys, k, last, rendered,
                   scraped, leads, i, rec, prev_rec, equity, firstName, lastName, lookup_failed,
                   calls, attempt, reauths, exit_status>>

\* sheet_ops.py:87-94 with _ensure_authenticated (16-31): after RefreshError
\* the append is retried when this was the first attempt and gcloud
\* re-authenticated (gcloud is only run on the first attempt); otherwise
\* sys.exit(1).
HandleRefreshError ==
    /\ pc = "reauth"
    /\ \E reauth_ok \in BOOLEAN :
         IF MayRetry(attempt, reauth_ok)
         THEN /\ attempt' = attempt + 1
              /\ reauths' = reauths + (IF reauth_ok THEN 1 ELSE 0)
              /\ pc' = "append"
              /\ exit_status' = exit_status
         ELSE /\ pc' = "exited"
              /\ exit_status' = 1
              /\ UNCHANGED <<attempt, reauths>>
    /\ UNCHANGED <<varsPS, varsSub, varsWorld, run, ended, sink0, source_keys, k, last, rendered,
                   scraped, leads, i, rec, prev_rec, equity, firstName, lastName, lookup_failed,
                   calls, tries, writes>>

\* sheet_ops.py:85 and main.py:117-125: appendToSheet returned True.
AppendReturned ==
    /\ pc = "appended"
    /\ prev_rec' = rec
    /\ i' = i + 1
    /\ pc' = "for"
    /\ attempt' = 0
    /\ tries' = 0
    /\ writes' = 0
    /\ reauths' = 0
    /\ UNCHANGED <<varsPS, varsSub, varsWorld, run, ended, sink0, source_keys, k, last, rendered, scraped, leads,
                   rec, equity, firstName, lastName, lookup_failed, calls, exit_status>>

\* main.py:127: the loop over the leads is over; the buffered record is dropped.
EndOfLeads ==
    /\ pc = "for"
    /\ i > Len(leads)
    /\ k' = k + 1
    /\ pc' = "source"
    /\ UNCHANGED <<varsPS, varsSub, varsWorld, varsAppend, run, ended, sink0, source_keys, last, rendered,
                   scraped, leads, i, rec, prev_rec, equity, firstName, lastName, lookup_failed,
                   calls, exit_status>>

\* main.py:129: every source key has been handled.
AllSourcesComplete ==
    /\ pc = "source"
    /\ k > Len(source_keys)
    /\ pc' = "done"
    /\ UNCHANGED <<varsPS, varsSub, varsWorld, varsAppend, run, ended, sink0, source_keys, k, last, rendered,
                   scraped, leads, i, rec, prev_rec, equity, firstName, lastName, lookup_failed,
                   calls, exit_status>>

\* This invocation read the sheet and scraped a listing that rendered.
Undisturbed ==
    /\ rendered = "yes"
    /\ calls # <<>>
    /\ calls[1].op = "getLast"
    /\ calls[1].outcome = "ok"

\* The operator starts main.py again with the same arguments: a new process,
\* the sheet as the earlier runs left it, the site and PropStream unchanged.
Restart ==
    /\ pc \in {"done", "exited", "crashed"}
    /\ run < MaxRuns
    /\ run' = run + 1
    /\ ended' = IF pc = "done" /\ Undisturbed THEN "complete" ELSE pc
    /\ sink0' = sink
    /\ k' = 1
    /\ pc' = "source"
    /\ last' = NoneValue
    /\ rendered' = "unknown"
    /\ scraped' = <<>>
    /\ leads' = <<>>
    /\ i' = 0
    /\ rec' = <<>>
    /\ prev_rec' = <<>>
    /\ equity' = 0
    /\ firstName' = ""
    /\ lastName' = ""
    /\ lookup_failed' = FALSE
    /\ calls' = <<>>
    /\ exit_status' = 0
    /\ attempt' = 0
    /\ tries' = 0
    /\ writes' = 0
    /\ reauths' = 0
    /\ UNCHANGED <<varsPS, varsSub, varsWorld, source_keys>>

Next ==
    \/ UnknownSource
    \/ FetchLast
    \/ Scrape
    \/ Lookup
    \/ Attach
    \/ AppendExecute
    \/ HandleRefreshError
    \/ AppendReturned
    \/ EndOfLeads
    \/ AllSourcesComplete
    \/ Restart

Spec == Init /\ [][Next]_vars

\* --------------------------------------------------------------------
\* One invocation with two source keys (python main.py key1 key2).

\* The argument lists: the first key is unknown, or names a source whose
\* harvester returns [] or raises when its page does not render; the second
\* names a source or is unknown.
SourceKeyLists ==
    {<<first, second>> :
        first \in {UnknownKey, "reuben_lublin", "brock_and_scott", "foreclosure_hotline"},
        second \in {"aldridge_pites", UnknownKey}}

\* Every site of the invocation shows the same listing.
InitSources ==
    /\ sink = <<>>
    /\ source_keys \in SourceKeyLists
    /\ upstream \in Listings("reuben_lublin")
    /\ propstream \in [1..Len(upstream) -> Answers]
    /\ ProcInit
    /\ AppendIdle
    /\ PropStreamIdle
    /\ SubIdle

NextSources ==
    \/ UnknownSource
    \/ FetchLast
    \/ Scrape
    \/ Lookup
    \/ Attach
    \/ AppendExecute
    \/ HandleRefreshError
    \/ AppendReturned
    \/ EndOfLeads
    \/ AllSourcesComplete

SpecSources == InitSources /\ [][NextSources]_vars

\* ====================================================================
\* The PropStream client (operators/realestate_ops.py): one process
\* calling fetchPropStreamEstimates up to MaxCalls times
\* ====================================================================

\* What a lead's address fields can be (a lead may lack city or zip).
Street == "123 Main St"
Cities == {"", "Raleigh"}
Zips == {"", "27601"}

\* Text of the element next to "EST. EQUITY" ("" when there is none) and
\* text next to the owner label (<<>> when there is none), a text being the
\* sequence of its characters; link says whether the view has a result link
\* to click.
EquityTexts == {"", "N/A", "$125,000"}
OwnerTexts == {<<>>,
               <<"K", "a", "t", "i", "e", " ", "E", "v", "a", "n", "s">>,
               <<"E", "V", "A", "N", "S", " ", "K", "A", "T", "I", "E", " ", "J">>,
               <<"A", "C", "M", "E", " ", "H", "O", "L", "D", "I", "N", "G", "S", " ", "L", "L", "C">>}
Views == [equityText : EquityTexts, ownerText : OwnerTexts, link : BOOLEAN]

\* realestate_ops.py:50-60 on the texts above, in cents; <<>> is None: ""
\* is falsy, "N/A" has no match of _MONEY_RE, "$125,000" is cleaned to
\* "125000" and converted.
parse_money(text) ==
    CASE text = ""         -> <<>>
      [] text = "N/A"      -> <<>>
      [] text = "$125,000" -> <<12500000>>

\* realestate_ops.py:39-40
SUFFIXES == {<<"J", "R">>, <<"S", "R">>, <<"I", "I">>, <<"I", "I", "I">>, <<"I", "V">>, <<"V">>}
ENTITY_TOKENS == {<<"L", "L", "C">>, <<"L", ".", "L", ".", "C">>, <<"I", "N", "C">>, <<"T", "R", "U", "S", "T">>, <<"L", "P">>,
                  <<"L", "L", "P">>, <<"C", "O", "R", "P">>, <<"C", "O">>, <<"C", "O", "M", "P", "A", "N", "Y">>}

\* realestate_ops.py:79: a match of \s+(?:&|AND)\s+ (IGNORECASE) starts at p.
OwnerSeparatorAt(t, p) ==
    /\ IsSpace(t[p])
    /\ \E m \in (p + 1)..Len(t) :
         /\ \A j \in p..(m - 1) : IsSpace(t[j])
         /\ \/ /\ t[m] = "&"
               /\ m + 1 <= Len(t)
               /\ IsSpace(t[m + 1])
            \/ /\ m + 3 <= Len(t)
               /\ py_upper(SubSeq(t, m, m + 2)) = <<"A", "N", "D">>
               /\ IsSpace(t[m + 3])

\* realestate_ops.py:79: the text before the first owner separator, stripped.
first_owner_of(n) ==
    LET starts == {p \in 1..Len(n) : OwnerSeparatorAt(n, p)}
    IN  IF starts = {} THEN py_strip(n)
        ELSE py_strip(SubSeq(n, 1, (CHOOSE p \in starts : \A r \in starts : p <= r) - 1))

\* An entity check that compares the text as written.
is_entity_as_written(first_owner) ==
    \E tok \in ENTITY_TOKENS : py_in(tok, first_owner)

\* realestate_ops.py:82-83: some entity token occurs in the upper-cased text.
is_entity(first_owner) ==
    \E tok \in ENTITY_TOKENS : py_in(tok, py_upper(first_owner))

\* realestate_ops.py:91,104,110: the tokens that are no legal suffix.
rest_tokens_of(tokens) ==
    SelectSeq(tokens, LAMBDA t : py_upper(t) \notin SUFFIXES)

\* realestate_ops.py:63-112: (first, last) of an owner text.
split_owner_hard(name) ==
    LET n           == py_strip(name)
        first_owner == first_owner_of(n)
        parts       == py_split1(first_owner, ",")
        after_comma == rest_tokens_of(py_words(py_strip(parts[2])))
        tokens      == py_words(first_owner)
        rest_tokens == rest_tokens_of(Tail(tokens))
    IN  IF n = <<>> THEN << <<>>, <<>> >>
        ELSE IF is_entity(first_owner) THEN << <<>>, <<>> >>
        ELSE IF py_in(<<",">>, first_owner)
             THEN <<IF after_comma # <<>> THEN after_comma[1] ELSE <<>>, py_strip(parts[1])>>
        ELSE IF Len(tokens) = 1 THEN << <<>>, tokens[1] >>
        ELSE IF first_owner = py_upper(first_owner)
             THEN <<py_title(IF rest_tokens # <<>> THEN rest_tokens[1] ELSE <<>>),
                    py_title(tokens[1])>>
        ELSE <<tokens[1], py_join(rest_tokens)>>

\* realestate_ops.py:540-544
attempts(address, city, zip_code) ==
    << <<address, city, zip_code>>, <<address, city, "">>, <<address, "", "">> >>

\* A loop that stops only once an equity value has been parsed.
ShouldBreakOnEquityOnly(eq, own) == eq # <<>>

\* realestate_ops.py:586: "if (equity is not None) or owner: break"
ShouldBreak(eq, own) == eq # <<>> \/ own # ""

\* A login without its except clause.
LoginCatchesNothing(err) == FALSE

\* realestate_ops.py:464: "except TimeoutError: pass"
LoginCatches(err) == err = "TimeoutError"

\* The exception leaves fetchPropStreamEstimates; the caller's except clause
\* (main.py:100) takes over.
Raise(why) ==
    /\ psPc' = "raised"
    /\ troubles' = troubles \cup {why}

InitPropStream ==
    /\ sink = <<>>
    /\ source_keys = <<>>
    /\ upstream = <<>>
    /\ propstream = <<>>
    /\ ProcInit
    /\ AppendIdle
    /\ PropStreamIdle
    /\ SubIdle

\* realestate_ops.py:610-614: a call begins; a client is constructed when
\* _client is None, otherwise _client.get_estimates is entered.
FetchPropStreamEstimates ==
    /\ psPc \in {"idle", "returned", "raised"}
    /\ callNo < MaxCalls
    /\ callNo' = callNo + 1
    /\ \E city \in Cities, zip_code \in Zips : args' = <<Street, city, zip_code>>
    /\ psPc' = IF client = 0 THEN "init" ELSE "loop"
    /\ used' = client
    /\ idx' = 1
    /\ ge_equity' = <<>>
    /\ owner' = <<>>
    /\ attemptsLog' = <<>>
    /\ troubles' = {}
    /\ result' = <<>>
    /\ UNCHANGED <<varsWorld, varsProc, varsAppend, varsSub, client, constructions, browsers, logins>>

\* realestate_ops.py:440-450: start Playwright, launch the browser, open a
\* page.  Nothing here is inside a try.
ClientInit ==
    /\ psPc = "init"
    /\ constructions' = constructions + 1
    /\ \E outcome \in {"ok", "start", "launch"} :
         IF outcome = "ok"
         THEN /\ browsers' = browsers + 1
              /\ psPc' = "login"
              /\ UNCHANGED troubles
         ELSE /\ Raise(outcome)
              /\ UNCHANGED browsers
    /\ UNCHANGED <<varsWorld, varsProc, varsAppend, varsSub, client, logins, callNo, args, used, idx,
                   ge_equity, owner, attemptsLog, result>>

\* realestate_ops.py:453-471 and 613: navigate to the login page (outside
\* the try), fill and submit the form (TimeoutError is caught), then the
\* constructor returns and _client is assigned.
Login ==
    /\ psPc = "login"
    /\ logins' = logins + 1
    /\ \E nav \in {"ok", "raises"}, form \in {"ok", "TimeoutError", "Error"} :
         IF nav = "raises"
         THEN /\ Raise("goto_login")
              /\ UNCHANGED <<client, used>>
         ELSE IF form # "ok" /\ ~LoginCatches(form)
         THEN /\ Raise(form)
              /\ UNCHANGED <<client, used>>
         ELSE /\ client' = constructions
              /\ used' = constructions
              /\ psPc' = "loop"
              /\ troubles' = troubles \cup (IF form = "ok" THEN {} ELSE {form})
    /\ UNCHANGED <<varsWorld, varsProc, varsAppend, varsSub, constructions, browsers, callNo, args, idx,
                   ge_equity, owner, attemptsLog, result>>

\* realestate_ops.py:549-587 with _perform_search (475-535): one iteration
\* of the loop over attempts.  ready: a search input is visible (else
\* _perform_search returns without submitting); view: what the page shows
\* afterwards; alive: the page survives the unguarded waits that follow a
\* submitted search (253, 279) or a clicked result (253).
GetEstimatesAttempt ==
    /\ psPc = "loop"
    /\ \E ready \in BOOLEAN, view \in Views, alive \in BOOLEAN :
         LET term   == attempts(args[1], args[2], args[3])[idx]
             eq_try == parse_money(view.equityText)
             eq     == IF eq_try # <<>> THEN eq_try ELSE ge_equity
             own    == IF view.ownerText # <<>> THEN view.ownerText ELSE owner
             entry  == [idx |-> idx, term |-> term, issued |-> ready,
                        gotEquity |-> eq # <<>>, gotOwner |-> own # <<>>]
         IN  IF ~alive /\ (ready \/ view.link)
             THEN /\ Raise("page_wait")
                  /\ attemptsLog' = Append(attemptsLog, [entry EXCEPT !.gotEquity = FALSE,
                                                                     !.gotOwner = FALSE])
                  /\ UNCHANGED <<idx, ge_equity, owner>>
             ELSE /\ ge_equity' = eq
                  /\ owner' = own
                  /\ attemptsLog' = Append(attemptsLog, entry)
                  /\ troubles' = troubles
                        \cup (IF ready THEN {} ELSE {"no_search_input"})
                        \cup (IF view.equityText # "" /\ eq_try = <<>> THEN {"unparseable"} ELSE {})
                        \cup (IF view.equityText = "" /\ view.ownerText = <<>> /\ ~view.link
                              THEN {"nothing_rendered"} ELSE {})
                  /\ IF ShouldBreak(eq, own) \/ idx = Len(attempts(args[1], args[2], args[3]))
                     THEN /\ psPc' = "after_loop"
                          /\ idx' = idx
                     ELSE /\ psPc' = "loop"
                          /\ idx' = idx + 1
    /\ UNCHANGED <<varsWorld, varsProc, varsAppend, varsSub, client, constructions, browsers, logins,
                   callNo, args, used, result>>

\* realestate_ops.py:589-598: equity None becomes 0.0, the owner is split,
\* est_val is always 0.0.
GetEstimatesReturn ==
    /\ psPc = "after_loop"
    /\ result' = <<IF ge_equity = <<>> THEN 0 ELSE ge_equity[1], 0,
                   split_owner_hard(owner)[1], split_owner_hard(owner)[2]>>
    /\ psPc' = "returned"
    /\ UNCHANGED <<varsWorld, varsProc, varsAppend, varsSub, client, constructions, browsers, logins,
                   callNo, args, used, idx, ge_equity, owner, attemptsLog, troubles>>

NextPropStream ==
    \/ FetchPropStreamEstimates
    \/ ClientInit
    \/ Login
    \/ GetEstimatesAttempt
    \/ GetEstimatesReturn

SpecPropStream == InitPropStream /\ [][NextPropStream]_vars



\* ====================================================================
\* The pager of 52ten/untested_first_scrub.py: safe_click and
\* load_all_pages_for_view on one view of the site
\* ====================================================================

\* How the three ways of clicking can end: element.click() succeeds, fails
\* with ElementClickInterceptedException or fails with another exception;
\* the scripted click succeeds or fails; the parent of the element is a link
\* with an href that driver.get opens, is no such link, or looking at it
\* raises.
DirectOutcomes == {"ok", "intercepted", "error"}
ScriptOutcomes == {"ok", "fail"}
ParentOutcomes == {"ok", "no_link", "fail"}

\* untested_first_scrub.py:72-107: what safe_click returns and which ways it
\* tried, in order ("click", then "overlays+script", then "parent_href").
safe_click(direct, script, parent) ==
    IF direct = "ok"
    THEN [ret |-> TRUE, tried |-> <<"click">>, raised |-> FALSE]
    ELSE IF direct = "intercepted"
    THEN IF script = "ok"
         THEN [ret |-> TRUE, tried |-> <<"click", "overlays+script">>, raised |-> FALSE]
         ELSE [ret |-> (parent = "ok"),
               tried |-> <<"click", "overlays+script", "parent_href">>, raised |-> FALSE]
    ELSE [ret |-> (script = "ok"), tried |-> <<"click", "overlays+script">>, raised |-> FALSE]

\* A scroll loop that gives up after the first scroll without growth.
ScrollPhaseOverAtOnce(n) == n >= 1

\* untested_first_scrub.py:170: "if consecutive_no_growth >= 2: break"
ScrollPhaseOver(n) == n >= 2

\* A view of the site when load_all_pages_for_view is called on it.
InitPager ==
    /\ sink = <<>>
    /\ source_keys = <<>>
    /\ upstream = <<>>
    /\ propstream = <<>>
    /\ ProcInit
    /\ AppendIdle
    /\ PropStreamIdle
    /\ ServiceLinkIdle
    /\ BrockIdle
    /\ OwnerIdle
    /\ CityIdle
    /\ KeyIdle
    /\ SearchIdle
    /\ RenderIdle
    /\ ScrubIdle
    /\ CleanIdle
    /\ LauncherIdle
    /\ MondayIdle
    /\ ReviewIdle
    /\ \E lm \in 0..MaxLoadMore, lazy \in 0..MaxGrowth, c \in 0..1 :
         /\ site0 = [lm |-> lm, lazy |-> lazy, cards |-> c]
         /\ lm_left = lm
         /\ lazy_left = lazy
         /\ cards = c
    /\ lpPc = "load_more"
    /\ activations = 0
    /\ growths = 0
    /\ scrolls = 0
    /\ consecutive_no_growth = 0
    /\ lm_end = ""
    /\ click = <<>>

\* untested_first_scrub.py:127-138: the control is found and safe_click is
\* called on it; a click that worked loads one more batch of cards, a
\* failed one ends the phase.
LoadMoreClick ==
    /\ lpPc = "load_more"
    /\ lm_left > 0
    /\ \E direct \in DirectOutcomes, script \in ScriptOutcomes, parent \in ParentOutcomes :
         LET r == safe_click(direct, script, parent) IN
         /\ click' = <<[direct |-> direct, script |-> script, parent |-> parent,
                        ret |-> r.ret, tried |-> r.tried, raised |-> r.raised]>>
         /\ IF r.ret
            THEN /\ lm_left' = lm_left - 1
                 /\ cards' = cards + 1
                 /\ activations' = activations + 1
                 /\ UNCHANGED <<lpPc, lm_end>>
            ELSE /\ lpPc' = "wait"
                 /\ lm_end' = "click_failed"
                 /\ UNCHANGED <<lm_left, cards, activations>>
    /\ UNCHANGED <<othersPager, site0, lazy_left, growths, scrolls, consecutive_no_growth>>

\* untested_first_scrub.py:131, 139-141: find_element raises
\* NoSuchElementException; the phase ends.
LoadMoreAbsent ==
    /\ lpPc = "load_more"
    /\ lm_left = 0
    /\ lpPc' = "wait"
    /\ lm_end' = "absent"
    /\ UNCHANGED <<othersPager, site0, lm_left, lazy_left, cards, activations, growths, scrolls,
                   consecutive_no_growth, click>>

\* untested_first_scrub.py:143-152: wait up to 30 s for a card; without one
\* the function returns.
WaitForCards ==
    /\ lpPc = "wait"
    /\ lpPc' = IF cards > 0 THEN "scroll" ELSE "returned"
    /\ consecutive_no_growth' = 0
    /\ UNCHANGED <<othersPager, site0, lm_left, lazy_left, cards, activations, growths, scrolls,
                   lm_end, click>>

\* untested_first_scrub.py:153-171: one scroll; the view may load a batch it
\* still has.
Scroll ==
    /\ lpPc = "scroll"
    /\ scrolls' = scrolls + 1
    /\ \E grows \in {FALSE} \cup {lazy_left > 0} :
         LET count_before == cards
             count_after  == IF grows THEN cards + 1 ELSE cards
             n == IF count_after > count_before THEN 0 ELSE consecutive_no_growth + 1
         IN  /\ cards' = count_after
             /\ lazy_left' = IF grows THEN lazy_left - 1 ELSE lazy_left
             /\ growths' = IF count_after > count_before THEN growths + 1 ELSE growths
             /\ consecutive_no_growth' = n
             /\ lpPc' = IF ScrollPhaseOver(n) THEN "returned" ELSE "scroll"
    /\ UNCHANGED <<othersPager, site0, lm_left, activations, lm_end, click>>

NextPager ==
    \/ LoadMoreClick
    \/ LoadMoreAbsent
    \/ WaitForCards
    \/ Scroll

\* The function is sequential code: it takes its next step.
SpecPager == InitPager /\ [][NextPager]_vars /\ WF_vars(NextPager)

\* ====================================================================
\* Pagination of harvestServiceLinkAuction
\* (justin coble/operators/servicelink_auction_ops.py)
\* ====================================================================

\* A page-cap test that lets the loop run once more.
MayPaginateInclusive(index, cap) == index <= cap

\* servicelink_auction_ops.py:228: "while page_index < MAX_PAGES"
MayPaginate(index, cap) == index < cap

\* The listings one page can yield, in page order: each is "seen" (its key is
\* among the keys read from the sheet) or "new".
PageListings ==
    UNION {[1..n -> {"seen", "new"}] : n \in 0..MaxPageListings}

\* A ledger test that finds no lead in the sheet.
IsKnownNever(known, lead) == FALSE

\* A ledger test that takes every lead for known once the sheet was read.
IsKnownWheneverLoaded(known, lead) == known

\* servicelink_auction_ops.py:216 and 269: "have_existing and key in
\* existing_keys"; a lead is "seen" when its key is among the rows of the
\* sheet.
IsKnown(known, lead) == known /\ lead = "seen"

\* A threshold that has to be exceeded.
SeenMoreThanEnough(consec, threshold) == consec > threshold

\* servicelink_auction_ops.py:218 and 271
SeenEnough(consec, threshold) == consec >= threshold

\* servicelink_auction_ops.py:214-225 and 267-280: filter the leads of a page
\* from the n-th on; the result tells whether the early stop was hit, the new
\* consec_seen, which leads of the page were added to all_new and how many
\* leads the loop looked at.
RECURSIVE FilterPage(_, _, _, _, _, _)
FilterPage(page_leads, n, known, threshold, consec, added) ==
    IF n > Len(page_leads)
    THEN [stop |-> FALSE, consec |-> consec, added |-> added, looked |-> Len(page_leads)]
    ELSE IF IsKnown(known, page_leads[n])
    THEN IF SeenEnough(consec + 1, threshold)
         THEN [stop |-> TRUE, consec |-> consec + 1, added |-> added, looked |-> n]
         ELSE FilterPage(page_leads, n + 1, known, threshold, consec + 1, added)
    ELSE FilterPage(page_leads, n + 1, known, threshold, 0, Append(added, n))

\* The leads of a page that were added, by their places in the scan.
PlacesInScan(added, before) == [j \in 1..Len(added) |-> before + added[j]]

InitServiceLink ==
    /\ sink = <<>>
    /\ source_keys = <<>>
    /\ upstream = <<>>
    /\ propstream = <<>>
    /\ ProcInit
    /\ AppendIdle
    /\ PropStreamIdle
    /\ PagerIdle
    /\ BrockIdle
    /\ OwnerIdle
    /\ CityIdle
    /\ KeyIdle
    /\ SearchIdle
    /\ RenderIdle
    /\ ScrubIdle
    /\ CleanIdle
    /\ LauncherIdle
    /\ MondayIdle
    /\ ReviewIdle
    /\ MAX_PAGES \in 1..MaxPageCap
    /\ have_existing \in BOOLEAN
    /\ SL_STOP_AFTER_CONSEC_SEEN \in 1..MaxSeenStop
    /\ consec_seen = 0
    /\ all_new = <<>>
    /\ scanned = <<>>
    /\ unfiltered = <<>>
    /\ page_index = 0
    /\ pages_scraped = 0
    /\ slPc = "page1"
    /\ sl_stop = ""
    /\ sl_last = <<>>

\* servicelink_auction_ops.py:207-225: page 1 is scraped whatever it shows;
\* with rows of the sheet known, enough rows in a row that are already
\* there end the call.
ScrapeFirstPage ==
    /\ slPc = "page1"
    /\ page_index' = 1
    /\ pages_scraped' = pages_scraped + 1
    /\ \E page_leads \in PageListings :
         LET f == FilterPage(page_leads, 1, have_existing, SL_STOP_AFTER_CONSEC_SEEN, consec_seen, <<>>) IN
         /\ consec_seen' = f.consec
         /\ all_new' = all_new \o PlacesInScan(f.added, Len(scanned))
         /\ scanned' = scanned \o SubSeq(page_leads, 1, f.looked)
         /\ unfiltered' = SubSeq(page_leads, f.looked + 1, Len(page_leads))
         /\ IF f.stop
            THEN /\ slPc' = "returned"
                 /\ sl_stop' = "consecutive_seen"
            ELSE /\ slPc' = "paginate"
                 /\ sl_stop' = ""
    /\ UNCHANGED <<othersSL, MAX_PAGES, have_existing, SL_STOP_AFTER_CONSEC_SEEN, sl_last>>

\* servicelink_auction_ops.py:228 and 282-285: the page index has reached
\* MAX_PAGES; the browser is closed and the leads are returned.
PageCapReached ==
    /\ slPc = "paginate"
    /\ ~MayPaginate(page_index, MAX_PAGES)
    /\ slPc' = "returned"
    /\ sl_stop' = "max_pages"
    /\ UNCHANGED <<othersSL, MAX_PAGES, have_existing, SL_STOP_AFTER_CONSEC_SEEN, consec_seen,
                   all_new, scanned, unfiltered, page_index, pages_scraped, sl_last>>

\* servicelink_auction_ops.py:229-280: one pass through the loop.  next_link:
\* a link with the text of the next page number exists; clicked: one of the
\* two click attempts worked; appeared: listings appeared within the
\* timeout; unchanged: the first address is the one seen before the click;
\* yielded: listings scraped from the page.
Paginate ==
    /\ slPc = "paginate"
    /\ MayPaginate(page_index, MAX_PAGES)
    /\ \E next_link \in BOOLEAN, clicked \in BOOLEAN, appeared \in BOOLEAN,
          unchanged \in BOOLEAN, page_leads \in PageListings :
         LET f == FilterPage(page_leads, 1, have_existing, SL_STOP_AFTER_CONSEC_SEEN, consec_seen, <<>>) IN
         /\ clicked => next_link
         /\ appeared => clicked
         /\ unchanged => appeared
         /\ (page_leads # <<>>) => appeared
         /\ sl_last' = <<[next_link |-> next_link, clicked |-> clicked, appeared |-> appeared,
                          unchanged |-> unchanged, yielded |-> Len(page_leads),
                          seen_enough |-> (page_leads # <<>> /\ f.stop), warned |-> unchanged]>>
         /\ IF ~next_link
            THEN /\ sl_stop' = "no_next_link"
                 /\ slPc' = "returned"
                 /\ UNCHANGED <<page_index, pages_scraped, consec_seen, all_new, scanned, unfiltered>>
            ELSE IF ~clicked
            THEN /\ sl_stop' = "click_failed"
                 /\ slPc' = "returned"
                 /\ UNCHANGED <<page_index, pages_scraped, consec_seen, all_new, scanned, unfiltered>>
            ELSE IF ~appeared
            THEN /\ sl_stop' = "no_listings"
                 /\ slPc' = "returned"
                 /\ UNCHANGED <<page_index, pages_scraped, consec_seen, all_new, scanned, unfiltered>>
            ELSE /\ page_index' = page_index + 1
                 /\ pages_scraped' = pages_scraped + 1
                 /\ consec_seen' = f.consec
                 /\ all_new' = all_new \o PlacesInScan(f.added, Len(scanned))
         /\ scanned' = scanned \o SubSeq(page_leads, 1, f.looked)
         /\ unfiltered' = SubSeq(page_leads, f.looked + 1, Len(page_leads))
                 /\ IF page_leads = <<>>
                    THEN /\ sl_stop' = "empty_page"
                         /\ slPc' = "returned"
                    ELSE IF f.stop
                    THEN /\ sl_stop' = "consecutive_seen"
                         /\ slPc' = "returned"
                    ELSE /\ sl_stop' = ""
                         /\ slPc' = "paginate"
    /\ UNCHANGED <<othersSL, MAX_PAGES, have_existing, SL_STOP_AFTER_CONSEC_SEEN>>

NextServiceLink ==
    \/ ScrapeFirstPage
    \/ PageCapReached
    \/ Paginate

\* The harvester is sequential code: it takes its next step.
SpecServiceLink == InitServiceLink /\ [][NextServiceLink]_vars /\ WF_vars(NextServiceLink)

\* ====================================================================
\* harvestBrockSales (justin coble/operators/brockandscott_ops.py): the
\* pagination loop and the parsing of a row's address
\* ====================================================================

\* Texts of the "Address:" cell: a street address, then the city after one
\* blank, after three blanks or after a comma, then nothing or a comma with
\* state and zip.
BrockStreets == {<<"1", "2", "3", " ", "M", "a", "i", "n", " ", "S", "t">>,
                 <<"9", " ", "E", "l", "m", " ", "R", "d">>}
BrockCities == {<<"S", "p", "r", "i", "n", "g", "f", "i", "e", "l", "d">>,
                <<"W", "o", "o", "d", "s", "t", "o", "c", "k">>}
BrockSeparators == {<<" ">>, <<" ", " ", " ">>, <<",", " ">>}
BrockTails == {<<>>,
               <<",", " ", "G", "A", " ", "3", "0", "3", "0", "3">>,
               <<",", " ", "G", "e", "o", "r", "g", "i", "a", " ", "3", "0", "1", "8", "8">>}
BrockAddresses ==
    {st \o sep \o city \o tail :
        st \in BrockStreets, sep \in BrockSeparators, city \in BrockCities, tail \in BrockTails}

\* brockandscott_ops.py:32-44: property, city and zip of an address text.
parse_address_full(text) ==
    LET parts     == py_split(text, ",")
        addr_city == py_strip(parts[1])
        state_zip == IF Len(parts) > 1 THEN py_strip(parts[2]) ELSE <<>>
        pc_       == re_split_2spaces(addr_city)
        tokens    == py_rsplit1(addr_city, " ")
        zip_words == py_words(state_zip)
    IN  [property |-> IF Len(pc_) >= 2 THEN py_strip(pc_[1]) ELSE py_strip(tokens[1]),
         city     |-> IF Len(pc_) >= 2 THEN py_strip(pc_[2])
                      ELSE IF Len(tokens) > 1 THEN py_strip(tokens[2]) ELSE <<>>,
         zip      |-> IF state_zip # <<>> THEN zip_words[Len(zip_words)] ELSE <<>>]

InitBrock ==
    /\ sink = <<>>
    /\ source_keys = <<>>
    /\ upstream = <<>>
    /\ propstream = <<>>
    /\ ProcInit
    /\ AppendIdle
    /\ PropStreamIdle
    /\ PagerIdle
    /\ ServiceLinkIdle
    /\ OwnerIdle
    /\ CityIdle
    /\ KeyIdle
    /\ SearchIdle
    /\ RenderIdle
    /\ ScrubIdle
    /\ CleanIdle
    /\ LauncherIdle
    /\ MondayIdle
    /\ ReviewIdle
    /\ bkPc = "rows"
    /\ bk_pages = 0
    /\ address_full = <<>>
    /\ bk_record = <<>>

\* brockandscott_ops.py:20-54: wait for the rows of the page (a timeout is
\* not caught) and append a record for a row.
BrockScrapePage ==
    /\ bkPc = "rows"
    /\ \E shown \in BOOLEAN :
         IF shown
         THEN /\ \E text \in BrockAddresses :
                   /\ address_full' = text
                   /\ bk_record' = <<parse_address_full(text)>>
              /\ bk_pages' = IF bk_pages < MaxBrockPages THEN bk_pages + 1 ELSE bk_pages
              /\ bkPc' = "next"
         ELSE /\ bkPc' = "raised"
              /\ UNCHANGED <<bk_pages, address_full, bk_record>>
    /\ UNCHANGED othersBrock

\* brockandscott_ops.py:56-62: click "Next" when the page has one and wait
\* for the network to go idle (a timeout is not caught); leave the loop when
\* it has none.
BrockNextPage ==
    /\ bkPc = "next"
    /\ \E next_btn \in BOOLEAN, idle \in BOOLEAN :
         bkPc' = IF ~next_btn THEN "returned" ELSE IF idle THEN "rows" ELSE "raised"
    /\ UNCHANGED <<othersBrock, bk_pages, address_full, bk_record>>

NextBrock ==
    \/ BrockScrapePage
    \/ BrockNextPage

\* The harvester is sequential code: it takes its next step.
SpecBrock == InitBrock /\ [][NextBrock]_vars /\ WF_vars(NextBrock)

\* ====================================================================
\* _split_owner_hard (operators/realestate_ops.py) on its own
\* ====================================================================

\* Words of owner texts: deed-style and mixed-case names, a middle initial,
\* a legal suffix (also followed by a comma), last names with and without a
\* comma, entity names and tokens, and the owner separators.
OwnerWords == {<<"E", "V", "A", "N", "S">>, <<"K", "A", "T", "I", "E">>, <<"J">>, <<"J", "R">>,
               <<"S", "C", "O", "T", "T">>, <<"E", "v", "a", "n", "s", ",">>, <<"S", "c", "o", "t", "t", ",">>, <<"K", "a", "t", "i", "e">>,
               <<"A", "c", "m", "e">>, <<"H", "o", "l", "d", "i", "n", "g", "s">>, <<"L", "L", "C">>, <<"l", "l", "c">>,
               <<"&">>, <<"a", "n", "d">>, <<"E", "v", "a", "n", "s">>, <<"J", "r", ",">>}

\* The owner texts of at most n words, the words one blank apart.
RECURSIVE OwnerNames(_)
OwnerNames(n) ==
    IF n = 0 THEN {<<>>}
    ELSE LET shorter == OwnerNames(n - 1)
         IN  shorter \cup {IF t = <<>> THEN w ELSE t \o <<" ">> \o w :
                              t \in shorter, w \in OwnerWords}

InitOwner ==
    /\ sink = <<>>
    /\ source_keys = <<>>
    /\ upstream = <<>>
    /\ propstream = <<>>
    /\ ProcInit
    /\ AppendIdle
    /\ PropStreamIdle
    /\ PagerIdle
    /\ ServiceLinkIdle
    /\ BrockIdle
    /\ CityIdle
    /\ KeyIdle
    /\ SearchIdle
    /\ RenderIdle
    /\ ScrubIdle
    /\ CleanIdle
    /\ LauncherIdle
    /\ MondayIdle
    /\ ReviewIdle
    /\ owner_text \in OwnerNames(MaxOwnerWords)
    /\ owner_split = <<>>

\* realestate_ops.py:63-112: the call returns.
SplitOwner ==
    /\ owner_split = <<>>
    /\ owner_split' = <<split_owner_hard(owner_text)>>
    /\ UNCHANGED <<othersOwner, owner_text>>

NextOwner == SplitOwner

SpecOwner == InitOwner /\ [][NextOwner]_vars

\* ====================================================================
\* city_list_parks (52ten/untested_first_scrub.py): the loop over the
\* cities of a state, restarted from the CSV
\* ====================================================================

\* The park links the site lists for a city (gather_all_links).
Parks == {"park-a", "park-b"}

\* untested_first_scrub.py:301-320: the logo link is clicked, or the home
\* page is opened directly when the link is missing or cannot be clicked;
\* False when that fails as well.
safe_click_home_link(anchor, clicked, nav, nav_again) ==
    (anchor /\ (clicked \/ nav)) \/ nav_again

\* What safe_click_home_link can return, over what the page can do.
HomeOutcomes ==
    {safe_click_home_link(anchor, home_clicked, nav, nav_again) :
        anchor \in BOOLEAN, home_clicked \in BOOLEAN, nav \in BOOLEAN, nav_again \in BOOLEAN}

\* A return that is content with the home page.
safe_return_without_replay(relocated, home, research) ==
    relocated \/ home

\* untested_first_scrub.py:381-404: the city list is found again after the
\* two steps back, or after the home link and a new state search.
safe_return_to_city_list(relocated, home, research) ==
    relocated \/ (home /\ research)

\* What a call of safe_return_to_city_list met and returned; what it did
\* not come to ask is FALSE.
ReturnCall(relocated, home, research) ==
    <<[relocated |-> relocated,
       home      |-> ~relocated /\ home,
       research  |-> ~relocated /\ home /\ research,
       ret       |-> safe_return_to_city_list(relocated, home, research)]>>

\* A resume test that never leaves skip mode.
InResumeForever(skip, found) == skip

\* untested_first_scrub.py:595-596: the loop is still looking for the last
\* city of the CSV.
InResume(skip, found) == skip /\ ~found

\* untested_first_scrub.py:415 and 624: the links of a city are
\* parsed when the CSV holds fewer rows for it than the site lists.
FewerInCsv(city) == Cardinality(csv_rows[city]) < Cardinality(Parks)

InitCity ==
    /\ sink = <<>>
    /\ source_keys = <<>>
    /\ upstream = <<>>
    /\ propstream = <<>>
    /\ ProcInit
    /\ AppendIdle
    /\ PropStreamIdle
    /\ PagerIdle
    /\ ServiceLinkIdle
    /\ BrockIdle
    /\ OwnerIdle
    /\ KeyIdle
    /\ SearchIdle
    /\ RenderIdle
    /\ ScrubIdle
    /\ CleanIdle
    /\ LauncherIdle
    /\ MondayIdle
    /\ ReviewIdle
    /\ total_cities \in 0..MaxCities
    /\ last_city_done \in 0..(total_cities + 1)
    /\ csv_rows \in [1..MaxCities -> SUBSET Parks]
    /\ \A c \in 1..MaxCities :
         /\ (last_city_done = 0 \/ c > total_cities) => csv_rows[c] = {}
         /\ (c = last_city_done) => csv_rows[c] # {}
         /\ (c < last_city_done) => csv_rows[c] \in {{}, Parks}
    /\ cityPc = "start"
    /\ city_idx = 1
    /\ skip_mode = FALSE
    /\ found_last_city = FALSE
    /\ city_log = [c \in 1..MaxCities |-> NotHandled]
    /\ city_break = ""
    /\ city_return = <<>>

\* untested_first_scrub.py:554-575: without a city list the single-list
\* fallback runs; otherwise the last city of the CSV decides on skip mode.
StartCities ==
    /\ cityPc = "start"
    /\ \E located \in BOOLEAN :
         IF ~located \/ total_cities = 0
         THEN /\ cityPc' = "returned"
              /\ city_break' = "single_list"
              /\ UNCHANGED skip_mode
         ELSE /\ cityPc' = "loop"
              /\ skip_mode' = (last_city_done # 0)
              /\ UNCHANGED city_break
    /\ UNCHANGED <<othersCity, total_cities, csv_rows, last_city_done, city_idx,
                   found_last_city, city_log, city_return>>

\* untested_first_scrub.py:579-588: the city list cannot be located again,
\* or has become shorter.
RelocateFails ==
    /\ cityPc = "loop"
    /\ city_idx <= total_cities
    /\ cityPc' = "returned"
    /\ city_break' = "relocate"
    /\ UNCHANGED <<othersCity, total_cities, csv_rows, last_city_done, city_idx, skip_mode,
                   found_last_city, city_log, city_return>>

\* untested_first_scrub.py:595-597, 635-637: a city other than the last one
\* of the CSV is skipped while the loop looks for that one.
SkipCity ==
    /\ cityPc = "loop"
    /\ city_idx <= total_cities
    /\ InResume(skip_mode, found_last_city)
    /\ city_idx # last_city_done
    /\ city_log' = [city_log EXCEPT ![city_idx].how = "skipped"]
    /\ city_idx' = city_idx + 1
    /\ city_return' = <<>>
    /\ UNCHANGED <<othersCity, total_cities, csv_rows, last_city_done, cityPc, skip_mode,
                   found_last_city, city_break>>

\* untested_first_scrub.py:597-634: the last city of the CSV is opened and
\* the links the CSV lacks are scraped (parse_city_parks_after_resume,
\* 458-503; a link that fails to load is passed over).
ResumeCity ==
    /\ cityPc = "loop"
    /\ city_idx <= total_cities
    /\ InResume(skip_mode, found_last_city)
    /\ city_idx = last_city_done
    /\ \E clicked \in BOOLEAN, shown \in BOOLEAN, failed \in SUBSET Parks,
          relocated \in BOOLEAN, home \in HomeOutcomes, research \in BOOLEAN :
         IF ~clicked \/ ~shown
         THEN /\ city_log' = [city_log EXCEPT
                                 ![city_idx].how = IF ~clicked THEN "unopened" ELSE "no_cards"]
              /\ found_last_city' = TRUE
              /\ city_idx' = city_idx + 1
              /\ city_return' = <<>>
              /\ UNCHANGED <<cityPc, city_break>>
         ELSE /\ city_log' = [city_log EXCEPT
                                 ![city_idx] = [how    |-> "partial",
                                                parsed |-> FewerInCsv(city_idx),
                                                added  |-> IF FewerInCsv(city_idx)
                                                           THEN (Parks \ csv_rows[city_idx]) \ failed
                                                           ELSE {}]]
              /\ city_return' = ReturnCall(relocated, home, research)
              /\ IF safe_return_to_city_list(relocated, home, research)
                 THEN /\ found_last_city' = TRUE
                      /\ city_idx' = city_idx + 1
                      /\ UNCHANGED <<cityPc, city_break>>
                 ELSE /\ cityPc' = "returned"
                      /\ city_break' = "return"
                      /\ UNCHANGED <<found_last_city, city_idx>>
    /\ UNCHANGED <<othersCity, total_cities, csv_rows, last_city_done, skip_mode>>

\* untested_first_scrub.py:638-661: a city is opened and all its links are
\* scraped (parse_city_parks, 409-449) unless the CSV holds as many rows for
\* it as the site lists.
FullCity ==
    /\ cityPc = "loop"
    /\ city_idx <= total_cities
    /\ ~InResume(skip_mode, found_last_city)
    /\ skip_mode' = FALSE
    /\ \E clicked \in BOOLEAN, shown \in BOOLEAN, failed \in SUBSET Parks,
          relocated \in BOOLEAN, home \in HomeOutcomes, research \in BOOLEAN :
         IF ~clicked \/ ~shown
         THEN /\ city_log' = [city_log EXCEPT
                                 ![city_idx].how = IF ~clicked THEN "unopened" ELSE "no_cards"]
              /\ city_idx' = city_idx + 1
              /\ city_return' = <<>>
              /\ UNCHANGED <<cityPc, city_break>>
         ELSE /\ city_log' = [city_log EXCEPT
                                 ![city_idx] = [how    |-> "full",
                                                parsed |-> FewerInCsv(city_idx),
                                                added  |-> IF FewerInCsv(city_idx)
                                                           THEN Parks \ failed
                                                           ELSE {}]]
              /\ city_return' = ReturnCall(relocated, home, research)
              /\ IF safe_return_to_city_list(relocated, home, research)
                 THEN /\ city_idx' = city_idx + 1
                      /\ UNCHANGED <<cityPc, city_break>>
                 ELSE /\ cityPc' = "returned"
                      /\ city_break' = "return"
                      /\ UNCHANGED city_idx
    /\ UNCHANGED <<othersCity, total_cities, csv_rows, last_city_done, found_last_city>>

\* untested_first_scrub.py:578, 663: the loop has gone through the list.
CitiesDone ==
    /\ cityPc = "loop"
    /\ city_idx > total_cities
    /\ cityPc' = "returned"
    /\ UNCHANGED <<othersCity, total_cities, csv_rows, last_city_done, city_idx, skip_mode,
                   found_last_city, city_log, city_break, city_return>>

NextCity ==
    \/ StartCities
    \/ RelocateFails
    \/ SkipCity
    \/ ResumeCity
    \/ FullCity
    \/ CitiesDone

SpecCity == InitCity /\ [][NextCity]_vars

\* ====================================================================
\* _key_for and _get_existing_keys_from_sheet
\* (justin coble/operators/servicelink_auction_ops.py): the ledger key of a
\* scraped lead and of a row of the sheet
\* ====================================================================

\* Texts of the key fields: a street address as the site shows it, in lower
\* case, with blanks around it, with a longer run of blanks inside, and
\* another address; likewise cities and zips.
KeyProperties == {<<"1", "2", " ", "E", "l", "m", " ", "S", "t">>, <<"1", "2", " ", "e", "l", "m", " ", "s", "t">>,
                  <<" ", "1", "2", " ", "E", "l", "m", " ", "S", "t", " ">>, <<"1", "2", " ", " ", "E", "l", "m", " ", "S", "t">>,
                  <<"9", " ", "O", "a", "k", " ", "R", "d">>}
KeyCities == {<<"R", "o", "m", "e">>, <<"R", "O", "M", "E">>, <<" ", "R", "o", "m", "e">>}
KeyZips == {<<"3", "0", "1", "6", "1">>, <<"3", "0", "1", "6", "5">>}
KeyRecords == [property : KeyProperties, city : KeyCities, zip : KeyZips]

\* servicelink_auction_ops.py:103-104
normalize(t) == py_upper(py_strip(t))

\* servicelink_auction_ops.py:107-111 for a lead and 170-177 for a row of
\* the sheet: the same expression over property, city and zip.
key_for(mode, lead) ==
    IF mode = "prop_city_zip"
    THEN normalize(lead.property \o <<"|">> \o lead.city \o <<"|">> \o lead.zip)
    ELSE normalize(lead.property)

InitKey ==
    /\ sink = <<>>
    /\ source_keys = <<>>
    /\ upstream = <<>>
    /\ propstream = <<>>
    /\ ProcInit
    /\ AppendIdle
    /\ PropStreamIdle
    /\ PagerIdle
    /\ ServiceLinkIdle
    /\ BrockIdle
    /\ OwnerIdle
    /\ CityIdle
    /\ SearchIdle
    /\ RenderIdle
    /\ ScrubIdle
    /\ CleanIdle
    /\ LauncherIdle
    /\ MondayIdle
    /\ ReviewIdle
    /\ SL_RESUME_MODE \in {"property", "prop_city_zip"}
    /\ key_lead \in {<<r>> : r \in {x \in KeyRecords : x.property = py_strip(x.property)
                                                      /\ x.city = py_strip(x.city)}}
    /\ key_row \in {<<r>> : r \in KeyRecords}
    /\ keys = <<>>

\* The two keys are computed.
ComputeKeys ==
    /\ keys = <<>>
    /\ keys' = <<key_for(SL_RESUME_MODE, key_lead[1]), key_for(SL_RESUME_MODE, key_row[1])>>
    /\ UNCHANGED <<othersKey, SL_RESUME_MODE, key_lead, key_row>>

NextKey == ComputeKeys

SpecKey == InitKey /\ [][NextKey]_vars

\* ====================================================================
\* _PropStreamClient._perform_search and _ensure_search_ready
\* (operators/realestate_ops.py)
\* ====================================================================

\* Arguments of _perform_search, as texts.
SearchAddresses == {<<"1", "2", "3", " ", "M", "a", "i", "n", " ", "S", "t">>, <<"9", " ", "E", "l", "m", " ", "R", "d">>}
SearchCities == {<<>>, <<"R", "a", "l", "e", "i", "g", "h">>}
SearchZips == {<<>>, <<"2", "7", "6", "0", "1">>}

\* realestate_ops.py:477-478
search_term(norm_addr, city, zip_code) ==
    LET loc_tail == py_strip(city \o <<" ">> \o zip_code)
    IN  IF loc_tail # <<>> THEN norm_addr \o <<",", " ">> \o loc_tail ELSE norm_addr

\* A readiness check that does not look again after its navigation.
ensure_search_ready_once(visible, visible_after_goto) ==
    [ret   |-> visible,
     reads |-> IF visible THEN <<TRUE>> ELSE <<FALSE, visible_after_goto>>,
     gotos |-> IF visible THEN <<>> ELSE <<"ensure">>]

\* realestate_ops.py:415-436: True when the input is visible after the
\* search buttons were tried; otherwise /search is opened and the input is
\* looked for once more.
ensure_search_ready(visible, visible_after_goto) ==
    [ret   |-> visible \/ visible_after_goto,
     reads |-> IF visible THEN <<TRUE>> ELSE <<FALSE, visible_after_goto>>,
     gotos |-> IF visible THEN <<>> ELSE <<"ensure">>]

InitSearch ==
    /\ sink = <<>>
    /\ source_keys = <<>>
    /\ upstream = <<>>
    /\ propstream = <<>>
    /\ ProcInit
    /\ AppendIdle
    /\ PropStreamIdle
    /\ PagerIdle
    /\ ServiceLinkIdle
    /\ BrockIdle
    /\ OwnerIdle
    /\ CityIdle
    /\ KeyIdle
    /\ RenderIdle
    /\ ScrubIdle
    /\ CleanIdle
    /\ LauncherIdle
    /\ MondayIdle
    /\ ReviewIdle
    /\ spPc = "start"
    /\ \E address \in SearchAddresses, city \in SearchCities, zip_code \in SearchZips :
         sp_term = search_term(address, city, zip_code)
    /\ sp_reads = <<>>
    /\ sp_gotos = <<>>
    /\ sp_typed = <<>>

\* realestate_ops.py:481: the first readiness check.
EnsureAtStart ==
    /\ spPc = "start"
    /\ \E visible \in BOOLEAN, visible_after_goto \in BOOLEAN :
         LET e == ensure_search_ready(visible, visible_after_goto) IN
         /\ sp_reads' = sp_reads \o e.reads
         /\ sp_gotos' = sp_gotos \o e.gotos
         /\ spPc' = IF e.ret THEN "lookup" ELSE "force"
    /\ UNCHANGED <<othersSearch, sp_term, sp_typed>>

\* realestate_ops.py:482-491: /search is opened (a failure to do so is
\* ignored) and readiness is checked again; without a visible input the
\* call returns.
ForceSearchPage ==
    /\ spPc = "force"
    /\ \E visible \in BOOLEAN, visible_after_goto \in BOOLEAN :
         LET e == ensure_search_ready(visible, visible_after_goto) IN
         /\ sp_reads' = sp_reads \o e.reads
         /\ sp_gotos' = sp_gotos \o <<"forced">> \o e.gotos
         /\ spPc' = IF e.ret THEN "lookup" ELSE "abandoned"
    /\ UNCHANGED <<othersSearch, sp_term, sp_typed>>

\* realestate_ops.py:493-535: the input is looked up; without it the call
\* returns, with it the term is typed and submitted with Enter.
LookupAndSubmit ==
    /\ spPc = "lookup"
    /\ \E inp \in BOOLEAN :
         /\ sp_reads' = Append(sp_reads, inp)
         /\ IF inp
            THEN /\ sp_typed' = <<sp_term>>
                 /\ spPc' = "submitted"
            ELSE /\ sp_typed' = <<>>
                 /\ spPc' = "abandoned"
    /\ UNCHANGED <<othersSearch, sp_term, sp_gotos>>

NextSearch ==
    \/ EnsureAtStart
    \/ ForceSearchPage
    \/ LookupAndSubmit

SpecSearch == InitSearch /\ [][NextSearch]_vars

\* ====================================================================
\* _wait_for_result_rendered and _render_stable (operators/realestate_ops.py)
\* ====================================================================

\* Lengths of the body text that a sample can find; the first is not above
\* the 200 characters that line 233 asks for.
RenderLengths == {150, 300, 450}

\* A stability test that is content with one unchanged sample.
StableAtOnce(count, samples) == count >= 1

\* realestate_ops.py:235
StableEnough(count, samples) == count >= samples

\* realestate_ops.py:233
Unchanged(length, previous) ==
    previous # <<>> /\ length = previous[1] /\ length > 200

\* The latest samples, RenderSamples of them at most.
Recent(seen) ==
    IF Len(seen) > RenderSamples THEN SubSeq(seen, Len(seen) - RenderSamples + 1, Len(seen)) ELSE seen

InitRender ==
    /\ sink = <<>>
    /\ source_keys = <<>>
    /\ upstream = <<>>
    /\ propstream = <<>>
    /\ ProcInit
    /\ AppendIdle
    /\ PropStreamIdle
    /\ PagerIdle
    /\ ServiceLinkIdle
    /\ BrockIdle
    /\ OwnerIdle
    /\ CityIdle
    /\ KeyIdle
    /\ SearchIdle
    /\ ScrubIdle
    /\ CleanIdle
    /\ LauncherIdle
    /\ MondayIdle
    /\ ReviewIdle
    /\ rdPc = "poll"
    /\ rd_rounds = 0
    /\ rd_present = FALSE
    /\ rd_taken = 0
    /\ last_len = <<>>
    /\ stable = 0
    /\ rd_recent = <<>>

\* realestate_ops.py:246-248, 252-253: before the deadline a round begins;
\* _render_stable is called only when a presence marker is seen, otherwise
\* the page is nudged and the next round follows.
PollRound ==
    /\ rdPc = "poll"
    /\ rd_rounds < MaxRenderRounds
    /\ rd_rounds' = rd_rounds + 1
    /\ \E present \in BOOLEAN :
         /\ rd_present' = present
         /\ rdPc' = IF present THEN "sampling" ELSE "poll"
    /\ rd_taken' = 0
    /\ last_len' = <<>>
    /\ stable' = 0
    /\ rd_recent' = <<>>
    /\ UNCHANGED othersRender

\* realestate_ops.py:228-240: one sample of the body-text length.
Sample ==
    /\ rdPc = "sampling"
    /\ rd_taken < 3 * RenderSamples
    /\ \E length \in RenderLengths :
         /\ rd_taken' = rd_taken + 1
         /\ rd_recent' = Recent(Append(rd_recent, length))
         /\ IF Unchanged(length, last_len)
            THEN /\ stable' = stable + 1
                 /\ IF StableEnough(stable + 1, RenderSamples)
                    THEN /\ rdPc' = "true"
                         /\ UNCHANGED last_len
                    ELSE /\ rdPc' = "sampling"
                         /\ last_len' = <<length>>
            ELSE /\ stable' = 0
                 /\ last_len' = <<length>>
                 /\ rdPc' = "sampling"
    /\ UNCHANGED <<othersRender, rd_rounds, rd_present>>

\* realestate_ops.py:241, 252-253: the samples are used up; the round ends.
RoundUnstable ==
    /\ rdPc = "sampling"
    /\ rd_taken = 3 * RenderSamples
    /\ rdPc' = "poll"
    /\ UNCHANGED <<othersRender, rd_rounds, rd_present, rd_taken, last_len, stable, rd_recent>>

\* realestate_ops.py:246, 254-255: the deadline has passed when a round
\* would begin.
DeadlinePassed ==
    /\ rdPc = "poll"
    /\ rdPc' = "false"
    /\ UNCHANGED <<othersRender, rd_rounds, rd_present, rd_taken, last_len, stable, rd_recent>>

NextRender ==
    \/ PollRound
    \/ Sample
    \/ RoundUnstable
    \/ DeadlinePassed

SpecRender == InitRender /\ [][NextRender]_vars

\* ====================================================================
\* The CSV of a first-scrub run (52ten/untested_first_scrub.py): the parse
\* of one city's listings, by parse_city_parks or by
\* parse_city_parks_after_resume, and the de-duplication at the end of main.

ScrubCities == {"Mesa", "Yuma"}

CsvRow(park, city) == [park_url |-> park, city |-> city]

\* The CSV files a run can find: up to MaxCsvRows rows, no two of them for
\* the same park and city (no file yet, or the file an earlier run left
\* after dedup_csv).
RECURSIVE CsvFiles(_)
CsvFiles(n) ==
    IF n = 0 THEN {<<>>}
    ELSE LET shorter == CsvFiles(n - 1)
             longest == {g \in shorter : Len(g) = n - 1}
             NewRowsOf(g) == {r \in [park_url : Parks, city : ScrubCities] :
                                 \A m \in 1..Len(g) : g[m] # r}
         IN  shorter \cup UNION {{Append(g, r) : r \in NewRowsOf(g)} : g \in longest}

\* untested_first_scrub.py:250-255: the href of every listing anchor of the
\* loaded page, in page order; nothing removes an href met twice.
RECURSIVE LinkLists(_)
LinkLists(n) ==
    IF n = 0 THEN {<<>>}
    ELSE LinkLists(n - 1)
         \cup {Append(l, park) : l \in {g \in LinkLists(n - 1) : Len(g) = n - 1}, park \in Parks}

\* untested_first_scrub.py:279-285
count_csv_entries_for_city(file, city) ==
    Cardinality({n \in 1..Len(file) : file[n].city = city})

\* untested_first_scrub.py:290-296 (NoneValue for an empty file)
get_last_city_in_csv(file) ==
    IF file = <<>> THEN NoneValue ELSE file[Len(file)].city

\* untested_first_scrub.py:472-476
UrlsOfCity(file, city) ==
    {file[n].park_url : n \in {m \in 1..Len(file) : file[m].city = city}}

\* untested_first_scrub.py:273: df.drop_duplicates(subset=["park_url",
\* "city"]) keeps the first row of every (park_url, city) pair.
drop_duplicates(file) ==
    SelectSeq([n \in 1..Len(file) |->
                  [row |-> file[n],
                   first |-> \A m \in 1..(n - 1) : file[m] # file[n]]],
              LAMBDA e : e.first)

\* dedup_csv (266-277): the file is rewritten with the rows kept.
dedup_csv(file) ==
    LET kept == drop_duplicates(file)
    IN  [n \in 1..Len(kept) |-> kept[n].row]

\* untested_first_scrub.py:482: "if link_url in existing_urls", the set
\* read before the loop.
IsRecorded(link, snapshot) == link \in snapshot

InitScrub ==
    /\ sink = <<>>
    /\ source_keys = <<>>
    /\ upstream = <<>>
    /\ propstream = <<>>
    /\ ProcInit
    /\ AppendIdle
    /\ PropStreamIdle
    /\ PagerIdle
    /\ ServiceLinkIdle
    /\ BrockIdle
    /\ OwnerIdle
    /\ CityIdle
    /\ KeyIdle
    /\ SearchIdle
    /\ RenderIdle
    /\ CleanIdle
    /\ LauncherIdle
    /\ MondayIdle
    /\ ReviewIdle
    /\ scrubPc = "city"
    /\ city_name = "Mesa"
    /\ csv_file \in CsvFiles(MaxCsvRows)
    /\ resume_city = (get_last_city_in_csv(csv_file) = city_name)
    /\ city_links \in LinkLists(MaxLinks)
    /\ csv_before = csv_file
    /\ existing_urls = {}
    /\ link_no = 0
    /\ city_data = <<>>

\* The city's page is open: load_all_pages_for_view and gather_all_links,
\* then the counts are compared.  The resume branch (618-629) calls
\* parse_city_parks_after_resume when the CSV holds fewer rows of the city
\* than the site shows links; parse_city_parks (409-418) returns [] unless
\* the CSV holds fewer.  A WebDriver exception ends the run in main's
\* except branch (759).
OpenCityListings ==
    /\ scrubPc = "city"
    /\ \E raised \in BOOLEAN :
         IF raised
         THEN /\ scrubPc' = "failed"
              /\ UNCHANGED <<existing_urls, link_no>>
         ELSE IF count_csv_entries_for_city(csv_file, city_name) < Len(city_links)
         THEN /\ scrubPc' = "links"
              /\ existing_urls' = IF resume_city THEN UrlsOfCity(csv_file, city_name) ELSE {}
              /\ link_no' = 1
         ELSE /\ scrubPc' = "parsed"
              /\ UNCHANGED <<existing_urls, link_no>>
    /\ UNCHANGED <<othersScrub, city_name, resume_city, city_links, csv_file, csv_before, city_data>>

\* untested_first_scrub.py:481-484: a link whose URL was in the CSV when
\* parse_city_parks_after_resume began is passed over.
SkipRecordedLink ==
    /\ scrubPc = "links"
    /\ link_no <= Len(city_links)
    /\ resume_city
    /\ IsRecorded(city_links[link_no], existing_urls)
    /\ link_no' = link_no + 1
    /\ UNCHANGED <<othersScrub, scrubPc, city_name, resume_city, city_links, csv_file, csv_before,
                   existing_urls, city_data>>

\* untested_first_scrub.py:426-447 and 486-503: the listing is opened (a
\* failed navigation goes on to the next link), its detail scraped and its
\* row appended to the CSV, then the browser steps back.  Only
\* NoSuchElementException is caught while scraping and nothing around
\* driver.back(): another WebDriver exception ends the run.
VisitLink ==
    /\ scrubPc = "links"
    /\ link_no <= Len(city_links)
    /\ ~(resume_city /\ IsRecorded(city_links[link_no], existing_urls))
    /\ \E outcome \in {"nav_failed", "detail_raised", "appended", "back_raised"} :
         /\ IF outcome \in {"appended", "back_raised"}
            THEN /\ csv_file' = Append(csv_file, CsvRow(city_links[link_no], city_name))
                 /\ city_data' = Append(city_data, city_links[link_no])
            ELSE UNCHANGED <<csv_file, city_data>>
         /\ IF outcome \in {"detail_raised", "back_raised"}
            THEN /\ scrubPc' = "failed"
                 /\ link_no' = link_no
            ELSE /\ scrubPc' = "links"
                 /\ link_no' = link_no + 1
    /\ UNCHANGED <<othersScrub, city_name, resume_city, city_links, csv_before, existing_urls>>

\* untested_first_scrub.py:449, 503: the loop over the links is over.
ParseReturns ==
    /\ scrubPc = "links"
    /\ link_no > Len(city_links)
    /\ scrubPc' = "parsed"
    /\ UNCHANGED <<othersScrub, city_name, resume_city, city_links, csv_file, csv_before,
                   existing_urls, link_no, city_data>>

\* untested_first_scrub.py:749-757: city_list_parks has returned and main
\* calls dedup_csv.
DedupCsv ==
    /\ scrubPc = "parsed"
    /\ csv_file' = dedup_csv(csv_file)
    /\ scrubPc' = "done"
    /\ UNCHANGED <<othersScrub, city_name, resume_city, city_links, csv_before, existing_urls,
                   link_no, city_data>>

NextScrub ==
    \/ OpenCityListings
    \/ SkipRecordedLink
    \/ VisitLink
    \/ ParseReturns
    \/ DedupCsv

SpecScrub == InitScrub /\ [][NextScrub]_vars

\* ====================================================================
\* add_missing_records (operators/data_clean.py:82-141), for one key of
\* SOURCES: the sheet is read once, the site harvested, and every lead
\* whose (fileNumber, key) is not in `have` is looked up and appended when
\* its equity is at least 100000.

\* The keys followed here: a site with case numbers and one without.
CleanKeys == {"reuben_lublin", "servicelink_auction"}

\* main.py:77-125 run to its end without a failure: the row of lead n is
\* written with the results of the lookup of lead n + 1 when it qualifies;
\* the last lead is dropped.
RowsOfRun(key, site, answers) ==
    LET decided == [n \in 1..(Len(site) - 1) |->
                      Attached(NewRecord(site[n], mapping[key]),
                               (IF answers[n + 1].kind = "raise" THEN 0 ELSE answers[n + 1].equity),
                               OwnerFirst(answers[n + 1]), OwnerLast(answers[n + 1]),
                               answers[n + 1].kind = "raise")]
        written == SelectSeq(decided, Qualifies)
    IN  [n \in 1..Len(written) |-> RowOf(written[n])]

\* data_clean.py:88-92: (row[3], row[10]) of every row read.
HaveOf(sheet) == {<<sheet[n].fileNumber, sheet[n].source>> : n \in 1..Len(sheet)}

\* data_clean.py:126-139 with sheet_ops.py:61-74: the row written for a
\* lead; the record has no estValue, so the Equity cell is blank (-1).
CleanRow(lead, key, first, lst) ==
    [fileNumber |-> lead.fileNumber, property |-> lead.property, estValue |-> -1,
     firstName |-> first, lastName |-> lst, source |-> key, error |-> ""]

\* data_clean.py:118-123
CleanEquity(ans) == IF ans.kind = "raise" THEN 0 ELSE ans.equity

InitClean ==
    /\ source_keys = <<>>
    /\ clean_key \in CleanKeys
    /\ upstream \in Listings(clean_key)
    /\ propstream \in [1..Len(upstream) -> Answers]
    /\ sink \in {<<>>, RowsOfRun(clean_key, upstream, propstream)}
    /\ ProcInit
    /\ AppendIdle
    /\ PropStreamIdle
    /\ PagerIdle
    /\ ServiceLinkIdle
    /\ BrockIdle
    /\ OwnerIdle
    /\ CityIdle
    /\ KeyIdle
    /\ SearchIdle
    /\ RenderIdle
    /\ ScrubIdle
    /\ LauncherIdle
    /\ MondayIdle
    /\ ReviewIdle
    /\ cleanPc = "start"
    /\ clean_calls = 0
    /\ sheet_before = <<>>
    /\ have = {}
    /\ clean_leads = <<>>
    /\ lead_no = 0
    /\ clean_added = <<>>

\* data_clean.py:87-112: read the sheet, build `have`, harvest the site.
\* The harvesters followed return [] when their page does not render.
ReadSheetAndHarvest ==
    /\ cleanPc = "start"
    /\ clean_calls < MaxCleanCalls
    /\ clean_calls' = clean_calls + 1
    /\ sheet_before' = sink
    /\ have' = HaveOf(sink)
    /\ \E shown \in BOOLEAN : clean_leads' = scrape(clean_key, upstream, shown).leads
    /\ lead_no' = 1
    /\ clean_added' = <<>>
    /\ cleanPc' = "leads"
    /\ UNCHANGED <<othersClean, clean_key>>

\* data_clean.py:115-117: the lead's (fileNumber, key) is in `have`.
SkipHad ==
    /\ cleanPc = "leads"
    /\ lead_no <= Len(clean_leads)
    /\ <<clean_leads[lead_no].fileNumber, clean_key>> \in have
    /\ lead_no' = lead_no + 1
    /\ UNCHANGED <<othersClean, cleanPc, clean_key, clean_calls, sheet_before, have, clean_leads,
                   clean_added>>

\* data_clean.py:118-140: the lead is looked up and, with an equity of at
\* least 100000, appended; appendToSheet returns with the row written or
\* ends the process (sheet_ops.py:87-94).
LookupAndAdd ==
    /\ cleanPc = "leads"
    /\ lead_no <= Len(clean_leads)
    /\ <<clean_leads[lead_no].fileNumber, clean_key>> \notin have
    /\ LET lead == clean_leads[lead_no]
           ans  == propstream[lead.property]
           row  == CleanRow(lead, clean_key, OwnerFirst(ans), OwnerLast(ans))
       IN  IF CleanEquity(ans) >= EQUITY_THRESHOLD * 100
           THEN \E written \in BOOLEAN :
                   IF written
                   THEN /\ sink' = Append(sink, row)
                        /\ clean_added' = Append(clean_added, [row |-> row, equity |-> CleanEquity(ans)])
                        /\ lead_no' = lead_no + 1
                        /\ cleanPc' = cleanPc
                   ELSE /\ cleanPc' = "exited"
                        /\ UNCHANGED <<sink, clean_added, lead_no>>
           ELSE /\ lead_no' = lead_no + 1
                /\ UNCHANGED <<sink, clean_added, cleanPc>>
    /\ UNCHANGED <<othersCleanButSink, clean_key, clean_calls, sheet_before, have, clean_leads>>

\* data_clean.py:141: the leads of the source are through; the operator may
\* call add_missing_records again.
CleanReturns ==
    /\ cleanPc = "leads"
    /\ lead_no > Len(clean_leads)
    /\ cleanPc' = "start"
    /\ UNCHANGED <<othersClean, clean_key, clean_calls, sheet_before, have, clean_leads, lead_no,
                   clean_added>>

NextClean ==
    \/ ReadSheetAndHarvest
    \/ SkipHad
    \/ LookupAndAdd
    \/ CleanReturns

SpecClean == InitClean /\ [][NextClean]_vars

\* ====================================================================
\* The launcher (justin coble/webbot.py): Flask serves every request in a
\* thread of its own; /run and /stop work under _running_lock, the reader
\* thread of a process does its bookkeeping without the lock, and a child
\* process ends when it ends.

\* Two rows of ROWS (webbot.py:29-38).
Displays == {"Reuben Lublin", "Brock & Scott"}

\* The request threads that can be at work at the same time.
RequestThreads == {1, 2}

\* proc.poll() is None
PollIsNone(p) == children[p].alive

\* A launcher that starts a process whatever the earlier one does.
MayStartAlways(p) == TRUE

\* webbot.py:267: "if _proc and _proc.poll() is None" is false.
MayStart(p) == p = 0 \/ ~PollIsNone(p)

InitLauncher ==
    /\ sink = <<>>
    /\ source_keys = <<>>
    /\ upstream = <<>>
    /\ propstream = <<>>
    /\ ProcInit
    /\ AppendIdle
    /\ PropStreamIdle
    /\ PagerIdle
    /\ ServiceLinkIdle
    /\ BrockIdle
    /\ OwnerIdle
    /\ CityIdle
    /\ KeyIdle
    /\ SearchIdle
    /\ RenderIdle
    /\ ScrubIdle
    /\ CleanIdle
    /\ MondayIdle
    /\ ReviewIdle
    /\ bot_proc = 0
    /\ current_display = ""
    /\ oper_running = [d \in Displays |-> FALSE]
    /\ running_lock = 0
    /\ reqPc = [t \in RequestThreads |-> "idle"]
    /\ reqDisplay = [t \in RequestThreads |-> ""]
    /\ reqAnswer = [t \in RequestThreads |-> ""]
    /\ requests = 0
    /\ children = <<>>

\* webbot.py:254-265: a /run request for a known row whose operator file
\* exists reaches the lock.
RunRequest(t) ==
    /\ reqPc[t] = "idle"
    /\ requests < MaxRequests
    /\ requests' = requests + 1
    /\ \E d \in Displays : reqDisplay' = [reqDisplay EXCEPT ![t] = d]
    /\ reqPc' = [reqPc EXCEPT ![t] = "run_wait"]
    /\ reqAnswer' = [reqAnswer EXCEPT ![t] = ""]
    /\ UNCHANGED <<othersLauncher, bot_proc, current_display, oper_running, running_lock, children>>

\* webbot.py:266-268: the lock is taken; with a process still running the
\* request ends here.
RunEnter(t) ==
    /\ reqPc[t] = "run_wait"
    /\ running_lock = 0
    /\ IF MayStart(bot_proc)
       THEN /\ running_lock' = t
            /\ reqPc' = [reqPc EXCEPT ![t] = "run_mark"]
            /\ UNCHANGED reqAnswer
       ELSE /\ running_lock' = 0
            /\ reqPc' = [reqPc EXCEPT ![t] = "idle"]
            /\ reqAnswer' = [reqAnswer EXCEPT ![t] = "in_progress"]
    /\ UNCHANGED <<othersLauncher, bot_proc, current_display, oper_running, reqDisplay, requests,
                   children>>

\* webbot.py:270-271
RunMark(t) ==
    /\ reqPc[t] = "run_mark"
    /\ oper_running' = [oper_running EXCEPT ![reqDisplay[t]] = TRUE]
    /\ current_display' = reqDisplay[t]
    /\ reqPc' = [reqPc EXCEPT ![t] = "run_popen"]
    /\ UNCHANGED <<othersLauncher, bot_proc, running_lock, reqDisplay, reqAnswer, requests, children>>

\* webbot.py:278-290: Popen starts the process; FileNotFoundError takes the
\* mark back and ends the request; any other exception (PermissionError,
\* OSError of a failed fork) leaves the handler through the `with`, which
\* releases the lock.
RunPopen(t) ==
    /\ reqPc[t] = "run_popen"
    /\ \E popen \in {"started", "FileNotFoundError", "OSError"} :
         IF popen = "started"
         THEN /\ children' = Append(children, [display |-> reqDisplay[t], alive |-> TRUE,
                                               reader |-> "unstarted"])
              /\ bot_proc' = Len(children) + 1
              /\ reqPc' = [reqPc EXCEPT ![t] = "run_thread"]
              /\ UNCHANGED <<oper_running, current_display, running_lock, reqAnswer>>
         ELSE IF popen = "FileNotFoundError"
         THEN /\ oper_running' = [oper_running EXCEPT ![reqDisplay[t]] = FALSE]
              /\ current_display' = ""
              /\ running_lock' = 0
              /\ reqPc' = [reqPc EXCEPT ![t] = "idle"]
              /\ reqAnswer' = [reqAnswer EXCEPT ![t] = "not_found"]
              /\ UNCHANGED <<children, bot_proc>>
         ELSE /\ running_lock' = 0
              /\ reqPc' = [reqPc EXCEPT ![t] = "idle"]
              /\ reqAnswer' = [reqAnswer EXCEPT ![t] = "error_500"]
              /\ UNCHANGED <<children, bot_proc, oper_running, current_display>>
    /\ UNCHANGED <<othersLauncher, reqDisplay, requests>>

\* webbot.py:292-295: the reader thread of the new process is started and
\* the lock released.
RunStartReader(t) ==
    /\ reqPc[t] = "run_thread"
    /\ children' = [children EXCEPT ![bot_proc].reader = "reading"]
    /\ running_lock' = 0
    /\ reqPc' = [reqPc EXCEPT ![t] = "idle"]
    /\ reqAnswer' = [reqAnswer EXCEPT ![t] = "started"]
    /\ UNCHANGED <<othersLauncher, bot_proc, current_display, oper_running, reqDisplay, requests>>

\* webbot.py:297-299: a /stop request reaches the lock.
StopRequest(t) ==
    /\ reqPc[t] = "idle"
    /\ requests < MaxRequests
    /\ requests' = requests + 1
    /\ reqPc' = [reqPc EXCEPT ![t] = "stop_wait"]
    /\ reqAnswer' = [reqAnswer EXCEPT ![t] = ""]
    /\ UNCHANGED <<othersLauncher, bot_proc, current_display, oper_running, running_lock,
                   reqDisplay, children>>

\* webbot.py:300-305 with _kill_process_group (106-131): under the lock a
\* running process is signalled; when the function returns the process has
\* ended, or has not yet (no process group found, or the last signal was
\* only just sent).
StopEnter(t) ==
    /\ reqPc[t] = "stop_wait"
    /\ running_lock = 0
    /\ running_lock' = t
    /\ reqPc' = [reqPc EXCEPT ![t] = "stop_clear"]
    /\ IF bot_proc # 0 /\ PollIsNone(bot_proc)
       THEN /\ \E ended_now \in BOOLEAN :
                 children' = [children EXCEPT ![bot_proc].alive = ~ended_now]
            /\ reqAnswer' = [reqAnswer EXCEPT ![t] = "stopping"]
       ELSE /\ reqAnswer' = [reqAnswer EXCEPT ![t] = "no_process"]
            /\ UNCHANGED children
    /\ UNCHANGED <<othersLauncher, bot_proc, current_display, oper_running, reqDisplay, requests>>

\* webbot.py:306-309
StopClear(t) ==
    /\ reqPc[t] = "stop_clear"
    /\ oper_running' = IF current_display # ""
                       THEN [oper_running EXCEPT ![current_display] = FALSE]
                       ELSE oper_running
    /\ current_display' = ""
    /\ running_lock' = 0
    /\ reqPc' = [reqPc EXCEPT ![t] = "idle"]
    /\ UNCHANGED <<othersLauncher, bot_proc, reqDisplay, reqAnswer, requests, children>>

\* The child process ends: main.py came to its end, failed, or a signal
\* sent earlier took effect.
ChildExits(p) ==
    /\ children[p].alive
    /\ children' = [children EXCEPT ![p].alive = FALSE]
    /\ UNCHANGED <<othersLauncher, bot_proc, current_display, oper_running, running_lock, reqPc,
                   reqDisplay, reqAnswer, requests>>

\* webbot.py:88-102: after the end of its process the reader thread clears
\* the mark of the row it was started for.
ReaderBookkeeping(p) ==
    /\ children[p].reader = "reading"
    /\ ~children[p].alive
    /\ oper_running' = [oper_running EXCEPT ![children[p].display] = FALSE]
    /\ children' = [children EXCEPT ![p].reader = "done"]
    /\ UNCHANGED <<othersLauncher, bot_proc, current_display, running_lock, reqPc, reqDisplay,
                   reqAnswer, requests>>

NextLauncher ==
    \/ \E t \in RequestThreads : RunRequest(t)
    \/ \E t \in RequestThreads : RunEnter(t)
    \/ \E t \in RequestThreads : RunMark(t)
    \/ \E t \in RequestThreads : RunPopen(t)
    \/ \E t \in RequestThreads : RunStartReader(t)
    \/ \E t \in RequestThreads : StopRequest(t)
    \/ \E t \in RequestThreads : StopEnter(t)
    \/ \E t \in RequestThreads : StopClear(t)
    \/ \E p \in 1..Len(children) : ChildExits(p)
    \/ \E p \in 1..Len(children) : ReaderBookkeeping(p)

SpecLauncher == InitLauncher /\ [][NextLauncher]_vars

\* ====================================================================
\* The Monday webhook (skye link/src/monday_router.py:294-383) and the
\* invoice proxy client (providers/qbo_proxy.py:18-46).

\* What a request can carry: the verification challenge, no event, a
\* status label other than the trigger, no item id, an item of another
\* board, or an item to bill.
MondayEvents == {"challenge", "no_event", "other_status", "no_item", "other_board", "item"}

\* monday_router.py:277-283
GateSettings ==
    [MONDAY_QBO_CREATE : BOOLEAN, MONDAY_QBO_COMMIT : BOOLEAN,
     QB_ALLOW_CREATE : BOOLEAN, QBO_PROXY_URL_SET : BOOLEAN]

\* monday_router.py:370: the dry-run test.
IsDryRun(g) == ~g.MONDAY_QBO_COMMIT \/ ~g.QB_ALLOW_CREATE

\* qbo_proxy.py:33-37: the body posted: the payload goes under "invoice",
\* the top-level "commit" is the module's QBO_PROXY_COMMIT.
proxy_body(payload, proxy_commit) ==
    [commit |-> proxy_commit, source |-> "skye-bot", invoice |-> payload]

\* monday_router.py:356-367, 373, 380: qbo_payload | {"commit": ...}
qbo_payload(commit_flag) == [doc_number |-> "INV-1", commit |-> commit_flag]

InitMonday ==
    /\ sink = <<>>
    /\ source_keys = <<>>
    /\ upstream = <<>>
    /\ propstream = <<>>
    /\ ProcInit
    /\ AppendIdle
    /\ PropStreamIdle
    /\ PagerIdle
    /\ ServiceLinkIdle
    /\ BrockIdle
    /\ OwnerIdle
    /\ CityIdle
    /\ KeyIdle
    /\ SearchIdle
    /\ RenderIdle
    /\ ScrubIdle
    /\ CleanIdle
    /\ LauncherIdle
    /\ ReviewIdle
    /\ mdPc = "received"
    /\ md_event \in MondayEvents
    /\ gates \in GateSettings
    /\ QBO_PROXY_COMMIT \in BOOLEAN
    /\ md_sent = <<>>
    /\ md_answer = 0

\* monday_router.py:296-317: everything but an item of this board is
\* answered at once.
FilterEvent ==
    /\ mdPc = "received"
    /\ IF md_event = "item"
       THEN /\ mdPc' = "bill"
            /\ UNCHANGED md_answer
       ELSE /\ mdPc' = "answered"
            /\ md_answer' = 200
    /\ UNCHANGED <<othersMonday, md_event, gates, QBO_PROXY_COMMIT, md_sent>>

\* monday_router.py:320-343: the bill is built and mailed and the memo set;
\* a failure is answered with 500.
EmailAndMemo ==
    /\ mdPc = "bill"
    /\ \E mailed \in BOOLEAN :
         IF mailed
         THEN /\ mdPc' = "qbo"
              /\ UNCHANGED md_answer
         ELSE /\ mdPc' = "answered"
              /\ md_answer' = 500
    /\ UNCHANGED <<othersMonday, md_event, gates, QBO_PROXY_COMMIT, md_sent>>

\* monday_router.py:345-383 with qbo_proxy.py:30-40: without the create
\* gate nothing is posted; without a proxy URL the answer is 400; otherwise
\* the payload is posted with commit False on a dry run and commit True
\* when both gates are set.
PostToProxy ==
    /\ mdPc = "qbo"
    /\ IF ~gates.MONDAY_QBO_CREATE
       THEN /\ mdPc' = "answered"
            /\ md_answer' = 200
            /\ UNCHANGED md_sent
       ELSE IF ~gates.QBO_PROXY_URL_SET
       THEN /\ mdPc' = "answered"
            /\ md_answer' = 400
            /\ UNCHANGED md_sent
       ELSE /\ md_sent' = <<proxy_body(qbo_payload(~IsDryRun(gates)), QBO_PROXY_COMMIT)>>
            /\ mdPc' = "posted"
            /\ UNCHANGED md_answer
    /\ UNCHANGED <<othersMonday, md_event, gates, QBO_PROXY_COMMIT>>

\* qbo_proxy.py:40-46 and monday_router.py:374-376, 381-383: the proxy's
\* answer is passed on, or its failure answered with 500.
ProxyAnswers ==
    /\ mdPc = "posted"
    /\ \E accepted \in BOOLEAN : md_answer' = IF accepted THEN 200 ELSE 500
    /\ mdPc' = "answered"
    /\ UNCHANGED <<othersMonday, md_event, gates, QBO_PROXY_COMMIT, md_sent>>

NextMonday ==
    \/ FilterEvent
    \/ EmailAndMemo
    \/ PostToProxy
    \/ ProxyAnswers

SpecMonday == InitMonday /\ [][NextMonday]_vars

\* ====================================================================
\* The review queue (skye link/src/review_router.py:25-86 over
\* review_store.py): items are rejected, or approved through the proxy or
\* the direct channel.  An approval waits for the provider, so another
\* request can be served meanwhile.

ReviewIds == {"r1", "r2"}

\* review_store.py:33-35 (<<>> is None)
queue_get(queue, rid) == queue[rid]

\* review_store.py:42-48: nothing happens to an item that is not there.
queue_update(queue, rid, status) ==
    IF queue[rid] = <<>> THEN queue
    ELSE [queue EXCEPT ![rid] = <<[@[1] EXCEPT !.status = status]>>]

\* review_store.py:50-56
queue_delete(queue, rid) == [queue EXCEPT ![rid] = <<>>]

\* What the provider made of an approval: the proxy channel with commit
\* False is a dry run, which creates nothing.
ProviderOutcomes(call) ==
    IF call.channel = "proxy" /\ ~call.proxy_url THEN {"no_proxy_url"}
    ELSE IF call.channel = "proxy" /\ ~call.commit THEN {"failed", "previewed"}
    ELSE {"failed", "created"}

InitReview ==
    /\ sink = <<>>
    /\ source_keys = <<>>
    /\ upstream = <<>>
    /\ propstream = <<>>
    /\ ProcInit
    /\ AppendIdle
    /\ PropStreamIdle
    /\ PagerIdle
    /\ ServiceLinkIdle
    /\ BrockIdle
    /\ OwnerIdle
    /\ CityIdle
    /\ KeyIdle
    /\ SearchIdle
    /\ RenderIdle
    /\ ScrubIdle
    /\ CleanIdle
    /\ LauncherIdle
    /\ MondayIdle
    /\ review_queue = [r \in ReviewIds |-> <<[status |-> "pending"]>>]
    /\ allow_create \in BOOLEAN
    /\ rv_inflight = <<>>
    /\ rv_history = [r \in ReviewIds |-> [rejected |-> FALSE, created |-> FALSE,
                                         refused |-> <<>>, latest |-> ""]]
    /\ rv_answer = 0
    /\ rv_requests = 0

\* review_router.py:25-32
ReviewReject(rid) ==
    /\ rv_requests < MaxRequests
    /\ rv_requests' = rv_requests + 1
    /\ IF queue_get(review_queue, rid) = <<>>
       THEN /\ rv_answer' = 404
            /\ UNCHANGED <<review_queue, rv_history>>
       ELSE /\ review_queue' = queue_delete(queue_update(review_queue, rid, "rejected"), rid)
            /\ rv_history' = [rv_history EXCEPT ![rid].rejected = TRUE, ![rid].latest = "rejected"]
            /\ rv_answer' = 200
    /\ UNCHANGED <<othersReview, allow_create, rv_inflight>>

\* review_router.py:46-58, 65: the item is read, the gate tested and the
\* provider called.
ReviewApprove(rid) ==
    /\ rv_inflight = <<>>
    /\ rv_requests < MaxRequests
    /\ rv_requests' = rv_requests + 1
    /\ IF queue_get(review_queue, rid) = <<>>
       THEN /\ rv_answer' = 404
            /\ UNCHANGED <<rv_inflight, rv_history>>
       ELSE IF ~allow_create
       THEN /\ rv_answer' = 400
            /\ rv_history' = [rv_history EXCEPT ![rid].refused = <<review_queue[rid]>>,
                                                ![rid].latest = "refused"]
            /\ UNCHANGED rv_inflight
       ELSE /\ \E via \in {"proxy", "qbo"}, commit_flag \in BOOLEAN, url \in BOOLEAN :
                 rv_inflight' = <<[rid |-> rid, channel |-> via, commit |-> commit_flag,
                                   proxy_url |-> url]>>
            /\ UNCHANGED <<rv_answer, rv_history>>
    /\ UNCHANGED <<othersReview, review_queue, allow_create>>

\* review_router.py:56-86: the provider has answered: on success the item
\* is marked approved and deleted, on any exception it is marked "error".
ProviderReturns ==
    /\ rv_inflight # <<>>
    /\ LET call == rv_inflight[1] IN
       \E outcome \in ProviderOutcomes(call) :
         IF outcome \in {"created", "previewed"}
         THEN /\ review_queue' = queue_delete(queue_update(review_queue, call.rid, "approved"),
                                              call.rid)
              /\ rv_history' = [rv_history EXCEPT
                                   ![call.rid].created = @ \/ outcome = "created",
                                   ![call.rid].latest = outcome]
              /\ rv_answer' = 200
         ELSE /\ review_queue' = queue_update(review_queue, call.rid, "error")
              /\ rv_history' = [rv_history EXCEPT
                                   ![call.rid].latest =
                                       IF review_queue[call.rid] = <<>> THEN @ ELSE "failed"]
              /\ rv_answer' = 500
    /\ rv_inflight' = <<>>
    /\ UNCHANGED <<othersReview, allow_create, rv_requests>>

NextReview ==
    \/ \E rid \in ReviewIds : ReviewReject(rid)
    \/ \E rid \in ReviewIds : ReviewApprove(rid)
    \/ ProviderReturns

SpecReview == InitReview /\ [][NextReview]_vars

\* ====================================================================
\* Properties of run_lead_processing and appendToSheet (under Spec)
\* ====================================================================

\* Reading aids.  An address (property) is the position of its entry on the
\* site, so it names one lead of the scraped list.
Decisions == {j \in 1..Len(calls) : calls[j].op = "decide"}
Lookups == {j \in 1..Len(calls) : calls[j].op = "lookup"}
NewRows == SubSeq(sink, Len(sink0) + 1, Len(sink))
PlaceIn(ls, p) == CHOOSE q \in 1..Len(ls) : ls[q].property = p
LoopEntered == pc \in {"for", "attach", "append", "reauth", "appended"}
InAppendToSheet == pc \in {"append", "reauth", "appended"}

\* C1: the commit decision for lead Li of the filtered list is taken only
\* after the lookup for Li+1 has been made; the last lead Ln is never
\* decided on nor passed to appendToSheet nor written; a run over a single
\* lead appends no row.
C1_CommitOneStepDelayed ==
    /\ \A j \in Decisions :
         /\ \E q \in 1..Len(leads) : leads[q].property = calls[j].property
         /\ PlaceIn(leads, calls[j].property) < Len(leads)
         /\ \E m \in 1..(j - 1) :
              /\ calls[m].op = "lookup"
              /\ calls[m].property = leads[PlaceIn(leads, calls[j].property) + 1].property
    /\ (InAppendToSheet /\ leads # <<>>) =>
            prev_rec[1].property # leads[Len(leads)].property
    /\ (leads # <<>>) =>
            \A n \in 1..Len(NewRows) : NewRows[n].property # leads[Len(leads)].property
    /\ (Len(leads) = 1) => sink = sink0

\* Witness of C1: a run over at least two leads has ended, it decided to
\* append its first lead, and the row is in the sheet; the last lead was
\* looked up and has no row.
C1_Witness ==
    /\ pc = "done"
    /\ Len(leads) >= 2
    /\ \E j \in Decisions : calls[j].append /\ calls[j].property = leads[1].property
    /\ \E n \in 1..Len(NewRows) : NewRows[n].property = leads[1].property
    /\ \E m \in Lookups : calls[m].property = leads[Len(leads)].property

\* C2: a record that is evaluated is appended whenever its error field is
\* non-empty, whatever its equity; with an empty error field it is appended
\* if and only if its equity is at least 100000 dollars (99,999.99 is not,
\* 100,000.00 is).  Every row written satisfies the rule, and once
\* appendToSheet has returned every record decided for appending has its row.
C2_QualificationRule ==
    /\ \A j \in Decisions :
         /\ (calls[j].error # "") => calls[j].append
         /\ (calls[j].error = "") => (calls[j].append <=> calls[j].estValue >= 10000000)
         /\ (calls[j].error = "" /\ calls[j].estValue = 9999999) => ~calls[j].append
    /\ \A n \in 1..Len(NewRows) : NewRows[n].error # "" \/ NewRows[n].estValue >= 10000000
    /\ (pc \in {"for", "attach", "source", "done"}) =>
         \A j \in Decisions :
            (\E n \in 1..Len(NewRows) : NewRows[n].property = calls[j].property)
               <=> calls[j].append

\* Witness of C2: in one finished run a record without error and with equity
\* 99,999.99 was skipped, and a record with error and an equity below the
\* threshold was appended.
C2_Witness ==
    /\ pc = "done"
    /\ \E j \in Decisions :
         calls[j].error = "" /\ calls[j].estValue = 9999999 /\ ~calls[j].append
    /\ \E j \in Decisions :
         /\ calls[j].error # "" /\ calls[j].estValue < 10000000 /\ calls[j].append
         /\ \E n \in 1..Len(NewRows) : NewRows[n].property = calls[j].property

\* C3 (as claimed): after a complete run, a second run over the unchanged
\* listing (read of the sheet undisturbed, listing rendered, same PropStream
\* answers) appends no row, for every source.
C3_SecondRunAppendsNothing ==
    (run >= 2 /\ ended = "complete" /\ Undisturbed) => sink = sink0

C6_FailedLookupHasError ==
    \A j \in Decisions :
        propstream[calls[j].property].kind \in {"nothing", "raise"} =>
            (calls[j].error # "" /\ calls[j].append)

\* C9: one call of appendToSheet executes the append at most twice, the
\* second time only after the first failed with RefreshError and the
\* re-authentication succeeded; it returns only with the row written exactly
\* once as the last row of the sheet; when it ends the process instead, the
\* exit status is 1 and no row was written.
C9_AppendAtMostOneRetry ==
    /\ tries <= 2
    /\ writes <= 1
    /\ reauths <= 1
    /\ (tries = 2) => (reauths = 1 /\ attempt = 1)
    /\ (pc = "append") => (tries = attempt /\ reauths = attempt /\ writes = 0)
    /\ (pc = "reauth") => (tries = attempt + 1 /\ reauths = attempt /\ writes = 0)
    /\ (pc = "appended") =>
          /\ writes = 1
          /\ Len(sink) >= 1
          /\ sink[Len(sink)] = RowOf(prev_rec[1])
          /\ Cardinality({n \in 1..Len(NewRows) : NewRows[n].property = prev_rec[1].property}) = 1
    /\ (pc = "exited" /\ tries >= 1) =>
          /\ exit_status = 1
          /\ writes = 0
          /\ (tries = 2 \/ reauths = 0)

\* Witness of C9: a call that returned after one retry.
C9_Witness ==
    /\ pc = "appended"
    /\ tries = 2
    /\ reauths = 1
    /\ writes = 1

\* C10 (as claimed): whichever the harvester, when the first listing content
\* does not render within the timeout it returns an empty list and the run
\* goes on; it does not raise.
C10_RenderTimeoutReturnsEmpty ==
    (rendered = "timeout") => (pc # "crashed" /\ leads = <<>>)


\* ====================================================================
\* Properties of fetchPropStreamEstimates (under SpecPropStream)
\* ====================================================================

\* Troubles that end a call with an exception: Playwright cannot be started,
\* the browser cannot be launched, the navigation to the login page fails,
\* the login form fails with an error that is no timeout, the page fails
\* during a wait after a search or a click.
FatalTroubles == {"start", "launch", "goto_login", "Error", "page_wait"}
NoEquityParsed == \A j \in 1..Len(attemptsLog) : ~attemptsLog[j].gotEquity
NoOwnerFound == \A j \in 1..Len(attemptsLog) : ~attemptsLog[j].gotOwner

C7_AtMostThreeLooseningSearches ==
    /\ Len(attemptsLog) <= 3
    /\ \A j \in 1..Len(attemptsLog) :
         /\ attemptsLog[j].idx = j
         /\ j = 1 => attemptsLog[j].term = <<args[1], args[2], args[3]>>
         /\ j = 2 => attemptsLog[j].term = <<args[1], args[2], "">>
         /\ j = 3 => attemptsLog[j].term = <<args[1], "", "">>
         /\ \A m \in 1..(j - 1) : ~attemptsLog[m].gotEquity /\ ~attemptsLog[m].gotOwner
    /\ (psPc \in {"after_loop", "returned"}) =>
          /\ attemptsLog # <<>>
          /\ (Len(attemptsLog) < 3) =>
                (attemptsLog[Len(attemptsLog)].gotEquity \/ attemptsLog[Len(attemptsLog)].gotOwner)

\* Witness of C7: a lookup with city and zip submitted three searches, the
\* third of which found the owner, and returned.
C7_Witness ==
    /\ psPc = "returned"
    /\ args[2] # ""
    /\ args[3] # ""
    /\ Len(attemptsLog) = 3
    /\ \A j \in 1..3 : attemptsLog[j].issued
    /\ attemptsLog[3].gotOwner
    /\ result[3] # <<>>

\* C8 (as claimed): at most one client, one browser and one login are ever
\* created in a process; the client is created by the first call and every
\* later call is served by that client.
C8_SingleClientReused ==
    /\ constructions <= 1
    /\ browsers <= 1
    /\ logins <= 1
    /\ (callNo >= 2) => (client = 1 /\ used = 1)


\* ====================================================================
\* Properties of safe_click and load_all_pages_for_view (under SpecPager)
\* ====================================================================

\* C11: on a view whose 'Load More' control disappears after finitely many
\* activations and whose card count stops growing, load_all_pages_for_view
\* returns.  The load-more phase ends when the control is absent (or a click
\* failed) and has then clicked it once per activation; without cards the
\* function returns after the wait; otherwise the scroll phase ends exactly
\* when two scrolls in a row brought no growth.  The cards in the page are
\* those found plus one batch per activation and per scroll with growth.
C11_LoadAllPagesTerminates ==
    /\ <>(lpPc = "returned")
    /\ [](/\ cards = site0.cards + activations + growths
          /\ (activations > 0) => click # <<>>
          /\ (lm_end = "" /\ click # <<>>) => click[1].ret
          /\ (lm_end = "absent") => (lm_left = 0 /\ activations = site0.lm)
          /\ (lm_end = "click_failed") => ~click[Len(click)].ret
          /\ (lpPc \in {"wait", "scroll", "returned"}) => lm_end # ""
          /\ consecutive_no_growth <= 2
          /\ (lpPc = "scroll") => consecutive_no_growth < 2
          /\ (lpPc = "returned") =>
                IF cards = 0 THEN scrolls = 0
                ELSE consecutive_no_growth = 2 /\ scrolls >= 2)

\* Witness of C11: a view whose control disappeared after 3 activations; the
\* call clicked it 3 times, scrolled with growth and then twice without, and
\* returned with every card of the view in the page.
C11_Witness ==
    /\ lpPc = "returned"
    /\ site0.lm = 3
    /\ activations = 3
    /\ lm_end = "absent"
    /\ growths >= 1
    /\ lazy_left = 0
    /\ consecutive_no_growth = 2
    /\ cards = site0.cards + site0.lm + site0.lazy

\* C14 (as claimed): safe_click never raises, tries a direct click, then
\* overlay removal with a scripted click, then the parent link's href, in
\* this order, whatever the direct click failed with; it returns True as soon
\* as one works and False only after all three were tried.
C14_SafeClickThreeFallbacks ==
    \A j \in 1..Len(click) :
        /\ ~click[j].raised
        /\ click[j].tried \in {<<"click">>, <<"click", "overlays+script">>,
                               <<"click", "overlays+script", "parent_href">>}
        /\ click[j].ret =>
              \/ (click[j].tried = <<"click">> /\ click[j].direct = "ok")
              \/ (Len(click[j].tried) = 2 /\ click[j].script = "ok")
              \/ (Len(click[j].tried) = 3 /\ click[j].parent = "ok")
        /\ ~click[j].ret => click[j].tried = <<"click", "overlays+script", "parent_href">>


\* ====================================================================
\* Properties of harvestServiceLinkAuction (under SpecServiceLink)
\* ====================================================================

C13_BrockPaginationEnds ==
    <>(bkPc \in {"returned", "raised"})

\* C17 (as claimed): "123 Main St, Springfield, GA 30303",
\* "123 Main St   Springfield" and "123 Main St Springfield" all parse to
\* property "123 Main St" and city "Springfield"; the zip is "30303" for the
\* first and empty for the other two.
C17_BrockAddressParsing ==
    LET street == <<"1", "2", "3", " ", "M", "a", "i", "n", " ", "S", "t">>
        town   == <<"S", "p", "r", "i", "n", "g", "f", "i", "e", "l", "d">>
        tail   == <<",", " ", "G", "A", " ", "3", "0", "3", "0", "3">>
    IN  /\ (address_full = street \o <<",", " ">> \o town \o tail) =>
              bk_record[1] = [property |-> street, city |-> town,
                              zip |-> <<"3", "0", "3", "0", "3">>]
        /\ (address_full = street \o <<" ", " ", " ">> \o town) =>
              bk_record[1] = [property |-> street, city |-> town, zip |-> <<>>]
        /\ (address_full = street \o <<" ">> \o town) =>
              bk_record[1] = [property |-> street, city |-> town, zip |-> <<>>]


\* ====================================================================
\* Properties of _split_owner_hard (under SpecOwner)
\* ====================================================================

\* The result for an entity.
NoName == << <<>>, <<>> >>

\* An entity token occurs, in some letter case, in the text.
HoldsEntityToken(t) == \E tok \in ENTITY_TOKENS : py_in(tok, py_upper(t))

\* C18: _split_owner_hard returns ("", "") for every owner text whose first
\* owner contains an entity token in any letter case, whether or not the
\* first owner has a comma or is all upper case; a token that occurs only
\* after the first owner does not make the result ("", "").
C18_EntityYieldsNoName ==
    (owner_split # <<>>) =>
        LET first_owner == first_owner_of(py_strip(owner_text))
        IN  /\ HoldsEntityToken(first_owner) => owner_split[1] = NoName
            /\ ( /\ HoldsEntityToken(owner_text)
                  /\ first_owner # <<>>
                  /\ ~HoldsEntityToken(first_owner) ) => owner_split[1] # NoName

\* Witness of C18: "Acme Holdings llc" was split into ("", "").
C18_Witness ==
    /\ owner_text = <<"A", "c", "m", "e", " ", "H", "o", "l", "d", "i", "n", "g", "s", " ", "l", "l", "c">>
    /\ owner_split = <<NoName>>

\* C19 (as claimed): for an all-uppercase text of one owner that names no
\* entity, has no comma and at least two words, last is the first word and
\* first is the first following word that is no legal suffix, both
\* title-cased.
C19_DeedStyleLastFirst ==
    LET tokens == py_words(owner_text)
        others == SelectSeq(Tail(tokens), LAMBDA w : w \notin SUFFIXES)
    IN  ( /\ owner_split # <<>>
          /\ owner_text = py_upper(owner_text)
          /\ ~py_in(<<",">>, owner_text)
          /\ Len(tokens) >= 2
          /\ \A j \in 1..Len(tokens) : tokens[j] \notin ENTITY_TOKENS \cup {<<"&">>, <<"A", "N", "D">>}
          /\ others # <<>> )
        => owner_split[1] = <<py_title(others[1]), py_title(tokens[1])>>

\* C20 (as claimed): for a text of one owner that names no entity and has a
\* comma, last is the text before the first comma and first is the first
\* word after the comma that is no legal suffix.
C20_CommaFormLastFirst ==
    LET parts  == py_split1(owner_text, ",")
        tokens == py_words(owner_text)
        others == SelectSeq(py_words(parts[2]), LAMBDA w : py_upper(w) \notin SUFFIXES)
    IN  ( /\ owner_split # <<>>
          /\ Len(parts) = 2
          /\ \A j \in 1..Len(tokens) :
                py_upper(tokens[j]) \notin ENTITY_TOKENS \cup {<<"&">>, <<"A", "N", "D">>}
          /\ others # <<>> )
        => owner_split[1] = <<others[1], py_strip(parts[1])>>


\* ====================================================================
\* Properties of city_list_parks (under SpecCity)
\* ====================================================================

\* The loop has tried to open the city.
Attempted(c) == city_log[c].how \in {"unopened", "no_cards", "partial", "full"}

\* C15: restarted with a CSV whose last city is on the list, the loop tries
\* to open no city before that city; that city it takes in partial mode,
\* scraping only when the CSV holds fewer rows for it than the site lists
\* and then only links the CSV lacks; every city after it that the loop
\* comes to is taken in full mode, none is skipped.
C15_ResumeAtLastCity ==
    (last_city_done \in 1..total_cities) =>
        /\ \A c \in 1..(last_city_done - 1) : ~Attempted(c)
        /\ city_log[last_city_done].how # "full"
        /\ (city_log[last_city_done].how = "partial") =>
              /\ city_log[last_city_done].parsed = FewerInCsv(last_city_done)
              /\ city_log[last_city_done].added \cap csv_rows[last_city_done] = {}
              /\ ~city_log[last_city_done].parsed => city_log[last_city_done].added = {}
        /\ \A c \in (last_city_done + 1)..total_cities :
              /\ city_log[c].how \notin {"skipped", "partial"}
              /\ (cityPc = "loop" /\ c < city_idx) => Attempted(c)
              /\ (cityPc = "returned" /\ city_break = "") => Attempted(c)

\* Witness of C15: the loop skipped city 1, scraped the missing link of
\* city 2 in partial mode, scraped city 3 in full mode and returned.
C15_Witness ==
    /\ cityPc = "returned"
    /\ total_cities = 3
    /\ last_city_done = 2
    /\ city_log[1].how = "skipped"
    /\ city_log[2].how = "partial"
    /\ city_log[2].added # {}
    /\ city_log[3].how = "full"
    /\ city_log[3].parsed

\* C16 (as claimed): when the city list was found at the top of every pass,
\* the loop has tried every city that the restart did not skip, also after
\* a city that could not be opened, whose cards timed out or from which the
\* return to the city list failed.
C16_AbandonedCityDoesNotAbort ==
    (cityPc = "returned" /\ city_break \notin {"single_list", "relocate"}) =>
        \A c \in 1..total_cities : city_log[c].how # ""

\* C21 (as claimed): for an owner text that does not begin with a suffix
\* word, the last name returned holds no legal-suffix word in any letter
\* case, in comma form, all-caps deed form and default form alike.
C21_LastNameHasNoSuffix ==
    LET tokens == py_words(owner_text)
        lasts  == py_words(owner_split[1][2])
    IN  ( /\ owner_split # <<>>
          /\ tokens # <<>>
          /\ py_upper(py_split1(tokens[1], ",")[1]) \notin SUFFIXES )
        => \A j \in 1..Len(lasts) : py_upper(lasts[j]) \notin SUFFIXES

\* ====================================================================
\* Properties of _key_for (under SpecKey)
\* ====================================================================

\* The text without its letter case, the blanks around it and the length of
\* the runs of blanks inside it.
SameButCaseAndBlanks(t, u) ==
    py_join(py_words(py_upper(t))) = py_join(py_words(py_upper(u)))

\* C22 (as claimed): a lead and a row whose key fields (the property in
\* 'property' mode; property, city and zip in 'prop_city_zip' mode) differ
\* only in letter case, in blanks around them or in the length of runs of
\* blanks inside them have the same key.
C22_KeysIgnoreCaseAndBlanks ==
    ( /\ keys # <<>>
      /\ SameButCaseAndBlanks(key_lead[1].property, key_row[1].property)
      /\ (SL_RESUME_MODE = "prop_city_zip") =>
            /\ SameButCaseAndBlanks(key_lead[1].city, key_row[1].city)
            /\ SameButCaseAndBlanks(key_lead[1].zip, key_row[1].zip) )
    => keys[1] = keys[2]

\* ====================================================================
\* The early stop of harvestServiceLinkAuction (under SpecServiceLink)
\* ====================================================================

\* How many leads at the end of a scan are known to the ledger, one after
\* the other.
RECURSIVE TrailingSeen(_)
TrailingSeen(scan) ==
    IF scan = <<>> \/ scan[Len(scan)] # "seen" THEN 0
    ELSE 1 + TrailingSeen(SubSeq(scan, 1, Len(scan) - 1))

\* The places of a scan that hold a lead the ledger does not know.
RECURSIVE NewPlaces(_, _)
NewPlaces(scan, n) ==
    IF n > Len(scan) THEN <<>>
    ELSE IF scan[n] = "new" THEN <<n>> \o NewPlaces(scan, n + 1)
    ELSE NewPlaces(scan, n + 1)

\* Every lead the ledger does not know precedes every lead it knows.
DescendingRecency(scan) ==
    \A m \in 1..Len(scan), n \in 1..Len(scan) :
        (scan[m] = "seen" /\ scan[n] = "new") => n < m

\* C23: with the ledger loaded, the call stops early exactly when the last
\* SL_STOP_AFTER_CONSEC_SEEN leads scanned, on whichever pages, were all
\* known to the ledger, and then holds the unknown leads scanned so far;
\* consec_seen is the number of known leads at the end of the scan, so an
\* unknown lead makes it zero.  Without the ledger the call never stops
\* early and keeps every lead.
C23_StopsAfterConsecutiveSeen ==
    /\ (sl_stop = "consecutive_seen") =>
          /\ have_existing
          /\ TrailingSeen(scanned) = SL_STOP_AFTER_CONSEC_SEEN
    /\ have_existing =>
          /\ consec_seen = TrailingSeen(scanned)
          /\ all_new = NewPlaces(scanned, 1)
          /\ \A n \in 0..(Len(scanned) - 1) :
                TrailingSeen(SubSeq(scanned, 1, n)) < SL_STOP_AFTER_CONSEC_SEEN
          /\ (TrailingSeen(scanned) >= SL_STOP_AFTER_CONSEC_SEEN) =>
                (slPc = "returned" /\ sl_stop = "consecutive_seen")
    /\ ~have_existing =>
          /\ sl_stop # "consecutive_seen"
          /\ consec_seen = 0
          /\ all_new = [n \in 1..Len(scanned) |-> n]
          /\ unfiltered = <<>>

\* Witness of C23: with a threshold of 2 the call stopped on the only lead
\* of page 2, the lead before it, on page 1, being known as well.
C23_Witness ==
    /\ sl_stop = "consecutive_seen"
    /\ SL_STOP_AFTER_CONSEC_SEEN = 2
    /\ page_index = 2
    /\ sl_last # <<>>
    /\ sl_last[1].yielded = 1
    /\ scanned = <<"new", "seen", "seen">>
    /\ all_new = <<1>>

\* C24: when the call stops early and the leads scanned together with the
\* rest of the page it stopped on are in descending-recency order, the list
\* it returns holds every lead of them that the ledger does not know, which
\* is what the scan without the early stop returns for a listing in that
\* order (whose later pages hold known leads only).
C24_EarlyStopKeepsResult ==
    (sl_stop = "consecutive_seen" /\ DescendingRecency(scanned \o unfiltered)) =>
        all_new = NewPlaces(scanned \o unfiltered, 1)

\* Witness of C24: the call stopped early on page 2 before the end of the
\* page, having kept the two new leads of page 1.
C24_Witness ==
    /\ sl_stop = "consecutive_seen"
    /\ page_index = 2
    /\ scanned = <<"new", "new", "seen">>
    /\ unfiltered = <<"seen">>
    /\ all_new = <<1, 2>>

\* ====================================================================
\* Properties of _perform_search (under SpecSearch)
\* ====================================================================

\* /search was opened by force and no look for the input, before or after,
\* found one.
ForcedAndNeverVisible ==
    /\ \E n \in 1..Len(sp_gotos) : sp_gotos[n] = "forced"
    /\ \A n \in 1..Len(sp_reads) : ~sp_reads[n]

\* C25 (as claimed): the call gives up without submitting only after the
\* forced navigation to /search also failed to show a visible input, and
\* otherwise submits the query.
C25_AbandonsOnlyAfterForcedNavigation ==
    /\ (spPc = "abandoned") => ForcedAndNeverVisible
    /\ (spPc \in {"abandoned", "submitted"} /\ ~ForcedAndNeverVisible) => sp_typed = <<sp_term>>

\* C25 (amended): the call gives up without submitting only after the forced
\* navigation to /search also failed to show a visible input, or when the
\* input that a readiness check had found is not found by the look-up that
\* follows the check; before it gives up for lack of a visible input it has
\* opened /search and looked again; otherwise it submits the search term.
C25_AbandonsAfterForcedNavigationOrLostInput ==
    /\ (spPc = "abandoned") =>
          /\ sp_typed = <<>>
          /\ \/ ForcedAndNeverVisible
             \/ /\ Len(sp_reads) >= 2
                /\ sp_reads[Len(sp_reads) - 1]
                /\ ~sp_reads[Len(sp_reads)]
          /\ ~sp_reads[1] => (Len(sp_reads) >= 2 /\ sp_gotos # <<>> /\ sp_gotos[1] = "ensure")
    /\ (spPc = "submitted") =>
          /\ sp_typed = <<sp_term>>
          /\ Len(sp_reads) >= 2
          /\ sp_reads[Len(sp_reads) - 1]
          /\ sp_reads[Len(sp_reads)]
    /\ (spPc \notin {"abandoned", "submitted"}) => sp_typed = <<>>

\* Witness of C25: a call for an address with city and zip gave up after
\* four looks for the input, two of them after the forced navigation.
C25_Witness ==
    /\ spPc = "abandoned"
    /\ sp_reads = <<FALSE, FALSE, FALSE, FALSE>>
    /\ sp_gotos = <<"ensure", "forced", "ensure">>
    /\ sp_term = <<"1", "2", "3", " ", "M", "a", "i", "n", " ", "S", "t", ",", " ", "R", "a", "l", "e", "i", "g", "h", " ", "2", "7", "6", "0", "1">>

\* ====================================================================
\* Properties of _wait_for_result_rendered (under SpecRender)
\* ====================================================================

\* The latest n samples of the round are of one length.
LatestAlike(n) ==
    /\ Len(rd_recent) >= n
    /\ \A j \in (Len(rd_recent) - n + 1)..Len(rd_recent) : rd_recent[j] = rd_recent[Len(rd_recent)]

\* C26: the wait returns True only in a round in which a presence marker
\* was seen and the latest RenderSamples samples were of one length, the
\* stability count having reached RenderSamples; a round takes at most
\* 3 * RenderSamples samples; a sample that differs from the one before it
\* puts the stability count back to zero; the wait returns False only once
\* the deadline has passed, the latest round not having met both conditions.
C26_RenderedOnlyIfPresentAndStable ==
    /\ (rdPc = "true") =>
          /\ rd_present
          /\ LatestAlike(RenderSamples)
          /\ stable = RenderSamples
    /\ rd_taken <= 3 * RenderSamples
    /\ stable < RenderSamples => rdPc # "true"
    /\ (Len(rd_recent) >= 2 /\ ~LatestAlike(2)) => stable = 0
    /\ (rdPc = "false") => (~rd_present \/ rd_taken = 0 \/ rd_taken = 3 * RenderSamples)

\* Witness of C26: in the second round the wait returned True on the last
\* sample it could take.
C26_Witness ==
    /\ rdPc = "true"
    /\ rd_rounds = 2
    /\ rd_taken = 3 * RenderSamples
    /\ rd_recent = <<300, 300, 300, 300>>

\* C27: safe_return_to_city_list returns True when the city list is found
\* after the two steps back; when it is not found the home page is opened
\* and the state search replayed, and the call returns True if the replay
\* succeeds and False only when going home or the replay fails.
C27_ReturnToCityList ==
    (city_return # <<>>) =>
        LET call == city_return[1]
        IN  /\ call.relocated => call.ret
            /\ (~call.relocated /\ call.home /\ call.research) => call.ret
            /\ ~call.ret => (~call.relocated /\ (~call.home \/ ~call.research))
            /\ (~call.relocated /\ (~call.home \/ ~call.research)) => ~call.ret

\* Witness of C27: the city list was not found after the steps back, the
\* home page and the replayed state search brought it back, and the loop
\* went on to the next city.
C27_Witness ==
    /\ city_return # <<>>
    /\ ~city_return[1].relocated
    /\ city_return[1].home
    /\ city_return[1].research
    /\ city_return[1].ret
    /\ cityPc = "loop"
    /\ city_idx = 2

\* C30 (as claimed): restarted with a non-empty CSV, the loop does not go
\* through the whole city list in skip mode: when it ends at the end of the
\* list, it has tried to open at least one city.
C30_LeavesSkipMode ==
    (cityPc = "returned" /\ city_break = "" /\ last_city_done # 0) =>
        \E c \in 1..total_cities : Attempted(c)

\* What a lookup that gave this answer hands to the caller as equity
\* (main.py:97-100).
EquityOf(ans) == IF ans.kind = "raise" THEN 0 ELSE ans.equity

\* C28 (as claimed): every row appended for a lead carries the equity, the
\* owner's first and last name and the error flag of the lookup made for
\* that lead's own address, never those of a neighbouring lead's lookup.
C28_RowCarriesOwnLookup ==
    \A n \in 1..Len(NewRows) :
        LET row == NewRows[n]
            ans == propstream[row.property]
        IN  /\ row.estValue = EquityOf(ans)
            /\ row.firstName = OwnerFirst(ans)
            /\ row.lastName = OwnerLast(ans)
            /\ (row.error # "") <=> (ans.kind = "raise")

\* The invocation is over: it ended at main.py:129, by sys.exit(1) or with
\* a traceback.
InvocationOver == pc \in {"done", "exited", "crashed"}

\* C29 (as claimed): an unknown source key, or a failure while harvesting
\* or processing one source, does not keep the remaining source keys of the
\* invocation from being processed: when the invocation is over, every key
\* before the last has been passed.
C29_RemainingSourcesProcessed ==
    InvocationOver => k >= Len(source_keys)

\* ====================================================================
\* Properties of the CSV of a first-scrub run (under SpecScrub)

\* A sequence without a repeated element.
NoRepeats(s) == \A m, n \in 1..Len(s) : (m # n) => s[m] # s[n]

\* C31 (as claimed): during one call, parse_city_parks_after_resume appends
\* no (park_url, city) pair that is already in the CSV: none that was there
\* when the call began and none that the call itself appended before.
C31_ResumeAppendsNoRecordedPair ==
    (resume_city /\ scrubPc \in {"links", "parsed", "failed", "done"}) =>
        /\ \A n \in 1..Len(city_data) : city_data[n] \notin UrlsOfCity(csv_before, city_name)
        /\ NoRepeats(city_data)

\* C32 (as claimed): when the run has ended, normally or on an error, the
\* CSV holds at most one row for every (park_url, city) pair.
C32_OneRowPerPairAtEnd ==
    (scrubPc \in {"done", "failed"}) => NoRepeats(csv_file)

\* ====================================================================
\* Properties of add_missing_records (under SpecClean)

\* The text in the Source cell names the source of this key: the key
\* itself (data_clean.py:134) or its display name (main.py:89).
SameSource(cell, key) == cell = key \/ cell = mapping[key]

\* C34 (as claimed): add_missing_records appends no lead whose file number
\* and source are already in the sheet, be it in a row run_lead_processing
\* wrote, a row an earlier call wrote or a row this call appended before;
\* and it appends only leads with an equity of at least 100000.
C34_AddsOnlyMissingLeads ==
    \A n \in 1..Len(clean_added) :
        LET earlier == sheet_before \o [m \in 1..(n - 1) |-> clean_added[m].row]
        IN  /\ \A m \in 1..Len(earlier) :
                  ~(/\ earlier[m].fileNumber = clean_added[n].row.fileNumber
                    /\ SameSource(earlier[m].source, clean_key))
            /\ clean_added[n].equity >= EQUITY_THRESHOLD * 100

\* ====================================================================
\* Properties of the launcher (under SpecLauncher)

AliveChildren == {p \in 1..Len(children) : children[p].alive}
MarkedRows == {d \in DOMAIN oper_running : oper_running[d]}

\* C35: under any interleaving of /run and /stop requests at most one bot
\* child process is alive; a process is started only while no process
\* started before is still running (the only one that can be alive is the
\* one _proc refers to), and a /run that finds one running starts nothing.
C35_AtMostOneChildAlive ==
    /\ Cardinality(AliveChildren) <= 1
    /\ \A p \in AliveChildren : p = bot_proc
    /\ \A t \in RequestThreads :
         (reqPc[t] \in {"run_mark", "run_popen"}) => AliveChildren = {}

\* Witness of C35: a second process runs after the first one was stopped,
\* and the other request thread has just been told that a run is in
\* progress.
C35_Witness ==
    /\ Len(children) = 2
    /\ ~children[1].alive
    /\ children[2].alive
    /\ \E t \in RequestThreads : reqAnswer[t] = "in_progress"
    /\ \E t \in RequestThreads : reqAnswer[t] = "started"

\* C36 (as claimed): at most one row is marked running at any time, and
\* with every request answered, every process ended and every reader
\* thread through, no row is marked running.
C36_AtMostOneRowRunning ==
    /\ Cardinality(MarkedRows) <= 1
    /\ ( /\ \A t \in RequestThreads : reqPc[t] = "idle"
         /\ AliveChildren = {}
         /\ \A p \in 1..Len(children) : children[p].reader = "done" )
       => MarkedRows = {}

\* ====================================================================
\* Properties of the Monday webhook (under SpecMonday)

\* The body is marked commit=true at some level.
MarkedCommit(b) == b.commit \/ b.invoice.commit

\* C37 (as claimed): on the dry-run branch the body sent to the invoice
\* proxy is marked commit=true at no level; a body marked commit=true is
\* sent only when MONDAY_QBO_COMMIT and QB_ALLOW_CREATE are both true.
C37_DryRunNeverMarkedCommit ==
    (md_sent # <<>>) =>
        /\ IsDryRun(gates) => ~MarkedCommit(md_sent[1])
        /\ MarkedCommit(md_sent[1]) => (gates.MONDAY_QBO_COMMIT /\ gates.QB_ALLOW_CREATE)

\* ====================================================================
\* Properties of the review queue (under SpecReview)

\* C38 (as claimed): an item is out of the queue only after it was rejected
\* or its invoice was created; an approval refused for QB_ALLOW_CREATE
\* leaves the item as it was; an item whose creation failed is in the queue
\* with status "error", where it can be approved again.
C38_LeavesOnlyRejectedOrCreated ==
    \A r \in ReviewIds :
        /\ (review_queue[r] = <<>>) => (rv_history[r].rejected \/ rv_history[r].created)
        /\ (rv_history[r].latest = "refused") => rv_history[r].refused = <<review_queue[r]>>
        /\ (rv_history[r].latest = "failed") =>
               (review_queue[r] # <<>> /\ review_queue[r][1].status = "error")

\* C39 (as claimed): _split_owner_hard returns ("", "") only for an empty
\* text or a first owner one of whose whitespace-separated words is an
\* entity token; a name that holds an entity token only inside a longer
\* word is split into names.
C39_SuppressedOnlyForEntityWord ==
    (owner_split # <<>> /\ owner_split[1] = << <<>>, <<>> >>) =>
        \/ py_strip(owner_text) = <<>>
        \/ \E w \in DOMAIN py_words(first_owner_of(py_strip(owner_text))) :
               py_upper(py_words(first_owner_of(py_strip(owner_text)))[w]) \in ENTITY_TOKENS

\* ====================================================================
\* The leads harvestServiceLinkAuction returns (under SpecServiceLink)

\* C33: with the keys of the sheet loaded, no lead of all_new has its key
\* among them; with the sheet not configured or unreadable, all_new is every
\* lead scraped, in scan order, none left unlooked at.
C33_ReturnsNoLoadedKey ==
    /\ \A j \in 1..Len(all_new) : all_new[j] \in 1..Len(scanned)
    /\ have_existing =>
          \A j \in 1..Len(all_new) : scanned[all_new[j]] # "seen"
    /\ ~have_existing =>
          /\ all_new = [n \in 1..Len(scanned) |-> n]
          /\ unfiltered = <<>>

\* Witness of C33: the call has returned with the keys loaded, having
\* scraped a known lead between two unknown ones and returned only these.
C33_Witness ==
    /\ slPc = "returned"
    /\ have_existing
    /\ scanned = <<"new", "seen", "new">>
    /\ all_new = <<1, 3>>

====
